---- MODULE Spec2Model ----
(***************************************************************************)
(* A model of the Scroll part of smolnet-portal:                           *)
(*   - geminiportal/protocols/base.py    (BaseResponse, the response       *)
(*     builder, the bounded and the streaming body reader,                 *)
(*     CloseNotifyState),                                                  *)
(*   - geminiportal/protocols/scroll.py  (ScrollRequest.fetch and          *)
(*     ScrollProxyResponseBuilder),                                        *)
(*   - geminiportal/protocols/__init__.py (build_proxy_request),           *)
(*   - geminiportal/handlers/scroll.py   (ScrollHandler: the line          *)
(*     transducer, the heading anchors, the inline markup).                *)
(*                                                                         *)
(* Strings are sequences of one-character strings, bytes are numbered by   *)
(* their position in the body.  Python's None is the string "None" where a *)
(* type name is expected and the empty sequence where a string is.         *)
(***************************************************************************)
EXTENDS Integers, Sequences, FiniteSets, TLC

\* ------------------------------------------------------------------ bounds

\* Longest inline text given to parse_inline_markup on its own.
MaxInlineLen == 4
\* Most lines of one document (general transducer specification).
MaxLines == 3
\* Most lines of one document (heading-only specification).
MaxHeadingLines == 5
\* Longest status string of a response.
MaxStatusLen == 2
\* Longest response body, in bytes.
MaxBodyLen == 5
\* Longest body behind the header lines of a fetch.
MaxWireBody == 2
\* Most parameter segments of a MIME string.
MaxParams == 2
\* Most lines of one document (specification of the lines with markup).
MaxMarkedLines == 3
\* Requests in flight at once.
MaxRequests == 2
\* Most TLS messages seen on all connections together.
MaxMessages == 3

\* ------------------------------------------------- program constants, scaled

\* base.py:26 sets 2**20; the model keeps the comparisons and scales the size.
MAX_BODY_SIZE == 3
\* base.py:22 sets 2**14; scaled likewise.
CHUNK_SIZE == 2

\* ------------------------------------------------------------ str helpers

NoneT == "None"

\* The grave accent, the delimiter of inline code (the one character that is
\* written by name).
Backtick == "backtick"

\* str.isspace for one character.
IsSpace(c) == c \in {" ", "\t", "\n", "\r"}

\* s[n:]
DropFirst(s, n) == IF n >= Len(s) THEN <<>> ELSE SubSeq(s, n + 1, Len(s))

\* s.startswith(p)
StartsWith(s, p) == Len(s) >= Len(p) /\ SubSeq(s, 1, Len(p)) = p

RECURSIVE rstrip(_)
\* s.rstrip()
rstrip(s) ==
    IF s # <<>> /\ IsSpace(s[Len(s)]) THEN rstrip(SubSeq(s, 1, Len(s) - 1)) ELSE s

RECURSIVE lstrip(_)
\* s.lstrip()
lstrip(s) ==
    IF s # <<>> /\ IsSpace(s[1]) THEN lstrip(Tail(s)) ELSE s

RECURSIVE Flatten(_)
\* "".join(parts)
Flatten(parts) ==
    IF parts = <<>> THEN <<>> ELSE Head(parts) \o Flatten(Tail(parts))

\* ---------------------------------------------------------- inline markup

\* markupsafe.escape, one character.
EscapeChar(c) ==
    CASE c = "&" -> <<"&", "a", "m", "p", ";">>
      [] c = "<" -> <<"&", "l", "t", ";">>
      [] c = ">" -> <<"&", "g", "t", ";">>
      [] c = "'" -> <<"&", "#", "3", "9", ";">>
      [] c = "\"" -> <<"&", "#", "3", "4", ";">>
      [] OTHER -> <<c>>

\* markupsafe.escape
escape(text) == Flatten([i \in 1..Len(text) |-> EscapeChar(text[i])])

RECURSIVE RunLen(_, _, _)
\* Length of the longest run of characters other than d that starts at s[i]:
\* what the greedy [^d]* takes before it backtracks.
RunLen(s, i, d) ==
    IF i <= Len(s) /\ s[i] # d THEN 1 + RunLen(s, i + 1, d) ELSE 0

\* The lookbehind (?<!d) at position i and the lookahead (?!d) after position e.
NotBehind(s, i, d) == i = 1 \/ s[i - 1] # d
NotAhead(s, e, d) == e = Len(s) \/ s[e + 1] # d

\* Whether  \S(?:[^d]{k}\S)  d  (lookahead)  matches from s[i+1], the closing
\* delimiter being s[i+3+k].
GroupFits(s, i, d, look, k) ==
    LET j == i + 2 + k IN
    /\ j + 1 <= Len(s)
    /\ ~IsSpace(s[j])
    /\ s[j + 1] = d
    /\ (look => NotAhead(s, j + 1, d))

\* The match of  d(\S(?:[^d]*\S)?)d  that re finds at position i, as the index
\* of its closing delimiter; 0 when the pattern does not match at i.  `look`
\* adds (?<!d) in front and (?!d) behind.  The optional group is greedy and so
\* is [^d]*: the longest run that lets the rest match wins, then shorter
\* ones, then the group left out.
MatchEnd(s, i, d, look) ==
    IF ~(/\ s[i] = d
         /\ (look => NotBehind(s, i, d))
         /\ i + 1 <= Len(s)
         /\ ~IsSpace(s[i + 1]))
    THEN 0
    ELSE LET r == RunLen(s, i + 2, d)
             fits == {k \in 0..r : GroupFits(s, i, d, look, k)}
         IN  IF fits # {}
             THEN i + 3 + (CHOOSE k \in fits : \A m \in fits : m <= k)
             ELSE IF /\ i + 2 <= Len(s)
                     /\ s[i + 2] = d
                     /\ (look => NotAhead(s, i + 2, d))
                  THEN i + 2
                  ELSE 0

RECURSIVE SubFrom(_, _, _, _, _, _)
\* pattern.sub(open \1 close, s), scanning from position i: leftmost match,
\* then on from behind it.
SubFrom(s, i, d, look, open, close) ==
    IF i > Len(s) THEN <<>>
    ELSE LET e == MatchEnd(s, i, d, look) IN
         IF e = 0
         THEN <<s[i]>> \o SubFrom(s, i + 1, d, look, open, close)
         ELSE open \o SubSeq(s, i + 1, e - 1) \o close
                   \o SubFrom(s, e + 1, d, look, open, close)

CodeOpen == <<"<", "c", "o", "d", "e", ">">>
CodeClose == <<"<", "/", "c", "o", "d", "e", ">">>
BoldOpen == <<"<", "b", ">">>
BoldClose == <<"<", "/", "b", ">">>
ItalicOpen == <<"<", "i", ">">>
ItalicClose == <<"<", "/", "i", ">">>

\* INLINE_CODE_PATTERN.sub(r"<code>\1</code>", text)
SubCode(text) == SubFrom(text, 1, Backtick, FALSE, CodeOpen, CodeClose)
\* INLINE_BOLD_PATTERN.sub(r"<b>\1</b>", text)
SubBold(text) == SubFrom(text, 1, "*", TRUE, BoldOpen, BoldClose)
\* INLINE_ITALIC_PATTERN.sub(r"<i>\1</i>", text)
SubItalic(text) == SubFrom(text, 1, "_", TRUE, ItalicOpen, ItalicClose)

\* parse_inline_markup that escapes the text after the substitutions.
parse_inline_markup_escaping_last(text) == escape(SubItalic(SubBold(SubCode(text))))

\* ScrollHandler.parse_inline_markup
parse_inline_markup(text) == SubItalic(SubBold(SubCode(escape(text))))

\* --------------------------------------------------------- heading anchors

\* iter_content, scroll.py:101-105
ZeroCounters == [H2 |-> 0, H3 |-> 0, H4 |-> 0]

\* bump_h2_anchor that starts the numbering over.
bump_h2_anchor_restarting(c) == [H2 |-> 1, H3 |-> 0, H4 |-> 0]

\* ScrollHandler.bump_h2_anchor
bump_h2_anchor(c) == [H2 |-> c.H2 + 1, H3 |-> 0, H4 |-> 0]

\* bump_h3_anchor that forgets to reset the level-4 counter.
bump_h3_anchor_keeping_h4(c) ==
    LET c1 == IF c.H2 = 0 THEN [H2 |-> c.H2 + 1, H3 |-> 0, H4 |-> 0] ELSE c
    IN  [c1 EXCEPT !.H3 = c1.H3 + 1]

\* ScrollHandler.bump_h3_anchor
bump_h3_anchor(c) ==
    LET c1 == IF c.H2 = 0 THEN bump_h2_anchor(c) ELSE c
    IN  [c1 EXCEPT !.H3 = c1.H3 + 1, !.H4 = 0]

\* bump_h4_anchor that does not look at the level-3 counter.
bump_h4_anchor_alone(c) == [c EXCEPT !.H4 = c.H4 + 1]

\* ScrollHandler.bump_h4_anchor
bump_h4_anchor(c) ==
    LET c1 == IF c.H3 = 0 THEN bump_h3_anchor(c) ELSE c
    IN  [c1 EXCEPT !.H4 = c1.H4 + 1]

\* ScrollHandler.get_anchor: the counters after the bump and the anchor, the
\* string ".".join(str(n) ...) kept as the sequence of its numbers.
get_anchor(c, level) ==
    CASE level = 2 ->
           LET c1 == bump_h2_anchor(c)
           IN  [counters |-> c1, anchor |-> <<c1.H2>>]
      [] level = 3 ->
           LET c1 == bump_h3_anchor(c)
           IN  [counters |-> c1, anchor |-> <<c1.H2, c1.H3>>]
      [] level = 4 ->
           LET c1 == bump_h4_anchor(c)
           IN  [counters |-> c1, anchor |-> <<c1.H2, c1.H3, c1.H4>>]

\* ------------------------------------------------------------ the blocks

\* self.citation = None
NoCitation == [present |-> FALSE, url |-> <<>>, text |-> <<>>, prefix |-> <<>>]

\* A yielded dict.  Every block carries every key of the model; a key the
\* code does not set is empty (anchor <<>>: the dict has no "anchor").
Block(item_type) ==
    [item_type |-> item_type, text |-> <<>>, anchor |-> <<>>, lines |-> <<>>,
     citation |-> NoCitation, url |-> <<>>, prefix |-> <<>>]

\* An emoji cluster, written by name.
Emoji == "emoji"

RECURSIVE FirstSpace(_, _)
\* Index of the first whitespace of s at or after i; Len(s) + 1 without one.
FirstSpace(s, i) ==
    IF i > Len(s) \/ IsSpace(s[i]) THEN i ELSE FirstSpace(s, i + 1)

\* geminiportal.utils.parse_link_line: (url, link_text, prefix) of the text
\* behind the marker: the first word is the url, the rest the label (the url
\* itself without one), a leading emoji of the label its prefix.
parse_link_line(rest) ==
    LET body == lstrip(rstrip(rest))
        cut == FirstSpace(body, 1)
        url == SubSeq(body, 1, cut - 1)
        label == lstrip(DropFirst(body, cut - 1))
        shown == IF label = <<>> THEN url ELSE label
    IN  IF shown # <<>> /\ shown[1] = Emoji
        THEN [url |-> url, text |-> lstrip(Tail(shown)), prefix |-> <<Emoji>>]
        ELSE [url |-> url, text |-> shown, prefix |-> <<>>]

\* --------------------------------------------------------- the transducer

\* The default prefix of a citation, scroll.py:127 (an em dash and a space).
EmDash == <<"emdash", " ">>

\* flush without the comparison of the requested with the active type.
flush_unguarded(P, new_type) ==
    [P |-> [P EXCEPT !.line_buffer = <<>>,
                     !.citation = NoCitation,
                     !.active_type = new_type],
     out |-> IF P.line_buffer # <<>> /\ P.active_type # NoneT
             THEN <<[Block(P.active_type) EXCEPT
                       !.citation = P.citation,
                       !.lines =
                          IF P.active_type \in {"p", "ul", "blockquote"}
                          THEN [i \in 1..Len(P.line_buffer) |->
                                   parse_inline_markup(P.line_buffer[i])]
                          ELSE P.line_buffer]>>
             ELSE <<>>]

\* flush that applies the inline markup to the lines of every type.
flush_marking_up_every_type(P, new_type) ==
    IF P.active_type # new_type
    THEN [P |-> [P EXCEPT !.line_buffer = <<>>,
                          !.citation = NoCitation,
                          !.active_type = new_type],
          out |-> IF P.line_buffer # <<>> /\ P.active_type # NoneT
                  THEN <<[Block(P.active_type) EXCEPT
                            !.citation = P.citation,
                            !.lines = [i \in 1..Len(P.line_buffer) |->
                                          parse_inline_markup(P.line_buffer[i])]]>>
                  ELSE <<>>]
    ELSE [P |-> P, out |-> <<>>]

\* flush that leaves the citation in place.
flush_keeping_citation(P, new_type) ==
    IF P.active_type # new_type
    THEN [P |-> [P EXCEPT !.line_buffer = <<>>,
                          !.active_type = new_type],
          out |-> IF P.line_buffer # <<>> /\ P.active_type # NoneT
                  THEN <<[Block(P.active_type) EXCEPT
                            !.citation = P.citation,
                            !.lines =
                               IF P.active_type \in {"p", "ul", "blockquote"}
                               THEN [i \in 1..Len(P.line_buffer) |->
                                        parse_inline_markup(P.line_buffer[i])]
                               ELSE P.line_buffer]>>
                  ELSE <<>>]
    ELSE [P |-> P, out |-> <<>>]

\* ScrollHandler.flush: the handler's fields afterwards and the blocks yielded.
\* P is the handler: [line_buffer, active_type, anchor_counters, citation].
flush(P, new_type) ==
    IF P.active_type # new_type
    THEN [P |-> [P EXCEPT !.line_buffer = <<>>,
                          !.citation = NoCitation,
                          !.active_type = new_type],
          out |-> IF P.line_buffer # <<>> /\ P.active_type # NoneT
                  THEN <<[Block(P.active_type) EXCEPT
                            !.citation = P.citation,
                            !.lines =
                               IF P.active_type \in {"p", "ul", "blockquote"}
                               THEN [i \in 1..Len(P.line_buffer) |->
                                        parse_inline_markup(P.line_buffer[i])]
                               ELSE P.line_buffer]>>
                  ELSE <<>>]
    ELSE [P |-> P, out |-> <<>>]

\* yield from self.flush(new_type), then the blocks of `extra`.
FlushThen(P, new_type, extra) ==
    LET f == flush(P, new_type) IN [P |-> f.P, out |-> f.out \o extra]

\* FlushAppend that leaves an empty line out of the buffer.
FlushAppendSkippingEmpty(P, new_type, text) ==
    LET f == flush(P, new_type)
    IN  [P |-> IF text = <<>> THEN f.P
               ELSE [f.P EXCEPT !.line_buffer = Append(f.P.line_buffer, text)],
         out |-> f.out]

\* FlushAppend that starts the buffer over with every line.
FlushAppendReplacing(P, new_type, text) ==
    LET f == flush(P, new_type)
    IN  [P |-> [f.P EXCEPT !.line_buffer = <<text>>], out |-> f.out]

\* yield from self.flush(new_type); self.line_buffer.append(text)
FlushAppend(P, new_type, text) ==
    LET f == flush(P, new_type)
    IN  [P |-> [f.P EXCEPT !.line_buffer = Append(f.P.line_buffer, text)],
         out |-> f.out]

Fence == <<Backtick, Backtick, Backtick>>
Hashes(n) == [i \in 1..n |-> "#"]

\* LinkLine without the citation arm: every link line is a link block.
LinkLineAlwaysLink(P, line) ==
    LET l == parse_link_line(DropFirst(line, 2)) IN
    FlushThen(P, NoneT,
              <<[Block("link") EXCEPT !.url = l.url, !.text = l.text,
                                      !.prefix = l.prefix]>>)

\* scroll.py:119-140, the rule of a line that starts with "=>".
LinkLine(P, line) ==
    LET l == parse_link_line(DropFirst(line, 2)) IN
    IF P.active_type = "blockquote"
    THEN flush([P EXCEPT !.citation =
                   [present |-> TRUE, url |-> l.url, text |-> l.text,
                    prefix |-> IF l.prefix # <<>> THEN l.prefix ELSE EmDash]],
               NoneT)
    ELSE FlushThen(P, NoneT,
                   <<[Block("link") EXCEPT !.url = l.url, !.text = l.text,
                                           !.prefix = l.prefix]>>)

\* scroll.py:158-174, a heading of level 2, 3 or 4.
AnchoredHeading(P, line, level) ==
    LET f == flush(P, NoneT)
        a == get_anchor(f.P.anchor_counters, level)
    IN  [P |-> [f.P EXCEPT !.anchor_counters = a.counters],
         out |-> f.out \o
                 <<[Block(IF level = 2 THEN "h2" ELSE IF level = 3 THEN "h3" ELSE "h4")
                      EXCEPT !.text = lstrip(DropFirst(line, level)),
                             !.anchor = a.anchor]>>]

\* ListLine that takes the marker and one space off the line.
ListLineOneSpace(P, line) == FlushAppend(P, "ul", DropFirst(line, 2))

\* scroll.py:181-191, the rule of a line that starts with "* ".
ListLine(P, line) == FlushAppend(P, "ul", lstrip(DropFirst(line, 1)))

\* The body of the loop of iter_content, scroll.py:108-209, for one line of
\* text.splitlines(): the handler's fields afterwards and the blocks yielded.
ProcessLine(P, raw) ==
    LET line == rstrip(raw) IN
    IF StartsWith(line, Fence)
    THEN IF P.active_type = "pre" THEN flush(P, NoneT) ELSE flush(P, "pre")
    ELSE IF P.active_type = "pre"
    THEN [P |-> [P EXCEPT !.line_buffer = Append(P.line_buffer, line)], out |-> <<>>]
    ELSE IF StartsWith(line, <<"=", ">">>)
    THEN LinkLine(P, line)
    ELSE IF StartsWith(line, <<"=", ":">>)
    THEN LET l == parse_link_line(DropFirst(line, 2))
         IN  FlushThen(P, NoneT,
                       <<[Block("prompt") EXCEPT !.url = l.url, !.text = l.text,
                                                 !.prefix = l.prefix]>>)
    ELSE IF StartsWith(line, Hashes(5))
    THEN FlushThen(P, NoneT,
                   <<[Block("h5") EXCEPT !.text = lstrip(DropFirst(line, 5))]>>)
    ELSE IF StartsWith(line, Hashes(4))
    THEN AnchoredHeading(P, line, 4)
    ELSE IF StartsWith(line, Hashes(3))
    THEN AnchoredHeading(P, line, 3)
    ELSE IF StartsWith(line, Hashes(2))
    THEN AnchoredHeading(P, line, 2)
    ELSE IF StartsWith(line, Hashes(1))
    THEN FlushThen(P, NoneT,
                   <<[Block("h1") EXCEPT !.text = lstrip(DropFirst(line, 1))]>>)
    ELSE IF StartsWith(line, <<"*", " ">>)
    THEN ListLine(P, line)
    ELSE IF StartsWith(line, <<">", " ">>) \/ line = <<">">>
    THEN FlushAppend(P, "blockquote", DropFirst(line, 2))
    ELSE IF line = <<"-", "-", "-">>
    THEN FlushThen(P, NoneT, <<Block("hr")>>)
    ELSE FlushAppend(P, "p", line)

\* ------------------------------------------------ the body of a response

\* get_body reading one byte more than the limit before it gives up.
get_body_off_by_one(w, p) ==
    IF Len(w) >= MAX_BODY_SIZE + 1
    THEN [kind |-> "too_large", data |-> SubSeq(w, 1, MAX_BODY_SIZE + 1),
          wire |-> DropFirst(w, MAX_BODY_SIZE + 1), closed |-> FALSE]
    ELSE CASE p = "eof" ->
                [kind |-> "returned", data |-> w, wire |-> <<>>, closed |-> TRUE]
           [] p = "reset" ->
                [kind |-> "error", data |-> <<>>, wire |-> <<>>, closed |-> TRUE]
           [] p = "open" ->
                [kind |-> "blocked", data |-> <<>>, wire |-> w, closed |-> FALSE]

\* get_body that closes the connection before it raises at the limit.
get_body_closing_at_limit(w, p) ==
    IF Len(w) >= MAX_BODY_SIZE
    THEN [kind |-> "too_large", data |-> SubSeq(w, 1, MAX_BODY_SIZE),
          wire |-> DropFirst(w, MAX_BODY_SIZE), closed |-> TRUE]
    ELSE CASE p = "eof" ->
                [kind |-> "returned", data |-> w, wire |-> <<>>, closed |-> TRUE]
           [] p = "reset" ->
                [kind |-> "error", data |-> <<>>, wire |-> <<>>, closed |-> TRUE]
           [] p = "open" ->
                [kind |-> "blocked", data |-> <<>>, wire |-> w, closed |-> FALSE]

\* What reader.readexactly(MAX_BODY_SIZE) and get_body make of a connection
\* whose unread bytes are `w` and whose peer, behind them, closes ("eof"),
\* stays silent with the connection open ("open") or resets it ("reset").
\*   kind "too_large": MAX_BODY_SIZE bytes were read, ProxyResponseSizeError
\*                     carries them, close() is not called;
\*   kind "returned":  EOF came first (IncompleteReadError), close() is
\*                     called and the partial read is the whole body;
\*   kind "error":     the read raised, close() is called, the error goes on;
\*   kind "blocked":   readexactly never returns.
get_body(w, p) ==
    IF Len(w) >= MAX_BODY_SIZE
    THEN [kind |-> "too_large", data |-> SubSeq(w, 1, MAX_BODY_SIZE),
          wire |-> DropFirst(w, MAX_BODY_SIZE), closed |-> FALSE]
    ELSE CASE p = "eof" ->
                [kind |-> "returned", data |-> w, wire |-> <<>>, closed |-> TRUE]
           [] p = "reset" ->
                [kind |-> "error", data |-> <<>>, wire |-> <<>>, closed |-> TRUE]
           [] p = "open" ->
                [kind |-> "blocked", data |-> <<>>, wire |-> w, closed |-> FALSE]

NoBody == [kind |-> "none", data |-> <<>>, wire |-> <<>>, closed |-> FALSE]

\* ------------------------------------------------- the response builder

\* Branch with the certificate page tested behind the status classes 1 and 2.
BranchStatusFirst(o, st) ==
    IF o.raw_crt THEN "raw_crt"
    ELSE IF StartsWith(st, <<"1">>) THEN "input"
    ELSE IF StartsWith(st, <<"2">>) THEN "handler"
    ELSE IF o.crt THEN "crt"
    ELSE IF StartsWith(st, <<"3">>) THEN "redirect"
    ELSE IF StartsWith(st, <<"4">>) \/ StartsWith(st, <<"5">>) THEN "proxy_error"
    ELSE IF StartsWith(st, <<"6">>) THEN "cert_required"
    ELSE "gateway_error"

\* The arm of the if/elif chain of build_proxy_response that is taken.
Branch(o, st) ==
    IF o.raw_crt THEN "raw_crt"
    ELSE IF o.crt THEN "crt"
    ELSE IF StartsWith(st, <<"1">>) THEN "input"
    ELSE IF StartsWith(st, <<"2">>) THEN "handler"
    ELSE IF StartsWith(st, <<"3">>) THEN "redirect"
    ELSE IF StartsWith(st, <<"4">>) \/ StartsWith(st, <<"5">>) THEN "proxy_error"
    ELSE IF StartsWith(st, <<"6">>) THEN "cert_required"
    ELSE "gateway_error"

\* What each arm without a body read returns.
PageOf(b) ==
    CASE b = "raw_crt" -> "attachment"
      [] b = "crt" -> "tls-context"
      [] b = "input" -> "gemini-query"
      [] b = "redirect" -> "redirect"
      [] b = "proxy_error" -> "proxy-error"
      [] b = "cert_required" -> "gemini-cert-required"
      [] b = "gateway_error" -> "gateway-error"

\* handler_class with the raw option forgotten.
handler_class_ignoring_raw(o, found) == found

\* render_from_handler, base.py:257-260: the handler class used, given the
\* class get_handler_class finds for the response.
handler_class(o, found) == IF o.raw THEN "stream" ELSE found

\* recovery_seed with the partial bytes dropped (StreamHandler.from_response
\* in the except clause).
recovery_seed_dropped(partial) == <<>>

\* render_from_handler, base.py:265-269: the bytes the stream handler of the
\* except clause is seeded with.
recovery_seed(partial) == partial

\* StreamHandler.from_response (geminiportal/handlers/base.py): the output is
\* the iterator response.stream_body(), of which nothing has run.
StreamFromResponse == [stream_kind |-> "plain", seed |-> <<>>]

\* StreamHandler.from_partial_response: the output is an iterator that yields
\* the partial bytes first and the chunks of response.stream_body() then.
StreamFromPartialResponse(partial) == [stream_kind |-> "partial", seed |-> partial]

\* BaseProxyResponseBuilder.render_from_handler.  A template handler's
\* from_response reads the whole body with get_body (as in
\* ScrollMetadataHandler.from_response, handlers/scroll.py:255-265); the
\* stream handler's reads nothing yet.
render_from_handler(o, found, w, p) ==
    LET hc == handler_class(o, found) IN
    IF hc = "stream"
    THEN [handler |-> hc, got |-> NoBody, output |-> "stream", error |-> "none",
          stream_kind |-> StreamFromResponse.stream_kind,
          seed |-> StreamFromResponse.seed, wire |-> w, closed |-> FALSE]
    ELSE LET g == get_body(w, p) IN
         CASE g.kind = "returned" ->
                [handler |-> hc, got |-> g, output |-> "document", error |-> "none",
                 stream_kind |-> "none", seed |-> <<>>, wire |-> g.wire,
                 closed |-> g.closed]
           [] g.kind = "too_large" ->
                [handler |-> "stream", got |-> g, output |-> "stream",
                 error |-> "none",
                 stream_kind |-> StreamFromPartialResponse(recovery_seed(g.data)).stream_kind,
                 seed |-> StreamFromPartialResponse(recovery_seed(g.data)).seed,
                 wire |-> g.wire, closed |-> g.closed]
           [] g.kind = "error" ->
                [handler |-> hc, got |-> g, output |-> "none", error |-> "OSError",
                 stream_kind |-> "none", seed |-> <<>>, wire |-> g.wire,
                 closed |-> g.closed]
           [] g.kind = "blocked" ->
                [handler |-> hc, got |-> g, output |-> "none", error |-> "none",
                 stream_kind |-> "none", seed |-> <<>>, wire |-> g.wire,
                 closed |-> g.closed]

\* ------------------------------------------------------------ the fetch

\* s.strip()
strip(s) == lstrip(rstrip(s))

\* s.endswith(p)
EndsWith(s, p) == Len(s) >= Len(p) /\ SubSeq(s, Len(s) - Len(p) + 1, Len(s)) = p

RECURSIVE FirstIndex(_, _, _)
\* Index of the first c in s at or after i; 0 without one.
FirstIndex(s, c, i) ==
    IF i > Len(s) THEN 0 ELSE IF s[i] = c THEN i ELSE FirstIndex(s, c, i + 1)

\* await reader.readline() on a connection whose unread bytes are w and whose
\* peer, behind them, closes ("eof"), resets the connection ("reset") or
\* stays silent ("open"): the line with its newline; at EOF what is left, be
\* it a line without its newline or nothing.
readline(w, p) ==
    LET n == FirstIndex(w, "\n", 1) IN
    IF n > 0
    THEN [kind |-> "line", data |-> SubSeq(w, 1, n), wire |-> DropFirst(w, n)]
    ELSE CASE p = "eof" -> [kind |-> "line", data |-> w, wire |-> <<>>]
           [] p = "reset" -> [kind |-> "error", data |-> <<>>, wire |-> <<>>]
           [] p = "open" -> [kind |-> "blocked", data |-> <<>>, wire |-> w]

\* BaseRequest.parse_response_header: header.strip().split(maxsplit=1).  With
\* no part at all the unpacking of line 108 raises ValueError.
parse_response_header(raw_header) ==
    LET header == strip(raw_header)
        cut == FirstSpace(header, 1)
        rest == lstrip(DropFirst(header, cut - 1))
    IN  IF header = <<>>
        THEN [raises |-> TRUE, status |-> <<>>, meta |-> <<>>]
        ELSE [raises |-> FALSE, status |-> SubSeq(header, 1, cut - 1), meta |-> rest]

\* None where a datetime is expected.
NoDate == [date |-> <<>>, utc |-> FALSE]

\* document_meta = None, and DocumentMetadata(author, publish_date,
\* modification_date); an author that is None is the empty string.
NoDocumentMeta ==
    [present |-> FALSE, author |-> <<>>, publish_date |-> NoDate,
     modification_date |-> NoDate]
DocumentMetadata(author, publish_date, modification_date) ==
    [present |-> TRUE, author |-> author, publish_date |-> publish_date,
     modification_date |-> modification_date]

\* datetime.fromisoformat, on the date strings of the model: "D" stands for
\* a date in ISO format without a zone; nothing else parses (a trailing "Z"
\* does not before Python 3.11, and the except clause then gives what 3.11
\* gives at once).
fromisoformat(date_str) ==
    IF date_str = <<"D">>
    THEN [raises |-> FALSE, value |-> [date |-> date_str, utc |-> FALSE]]
    ELSE [raises |-> TRUE, value |-> NoDate]

\* ScrollRequest.parse_date: the second fromisoformat, of the string without
\* its "Z", stands in the except clause of the first and is not guarded.
parse_date(line) ==
    LET date_str == rstrip(line)
        first == fromisoformat(date_str)
        second == fromisoformat(SubSeq(date_str, 1, Len(date_str) - 1))
    IN  IF date_str = <<>> THEN [raises |-> FALSE, value |-> NoDate]
        ELSE IF ~first.raises THEN first
        ELSE IF EndsWith(date_str, <<"Z">>)
             THEN IF second.raises THEN [raises |-> TRUE, value |-> NoDate]
                  ELSE [raises |-> FALSE, value |-> [second.value EXCEPT !.utc = TRUE]]
             ELSE [raises |-> FALSE, value |-> NoDate]

\* ScrollRequest.parse_author
parse_author(line) == rstrip(line)

\* fetch that reads the three metadata lines whatever the status.
reads_document_meta_always(st) == TRUE

\* fetch, scroll.py:82: whether the three metadata lines are read.
reads_document_meta(st) == StartsWith(st, <<"2">>)

\* The host of the request.
Host == "example.org"

\* str(e) of the OSError a failure raises.
ErrorText(failure) ==
    CASE failure = "refused" -> "[Errno 111] Connect call failed"
      [] failure = "ssl" -> "[SSL] handshake failure"
      [] failure = "reset" -> "[Errno 104] Connection reset by peer"
      [] OTHER -> ""

\* The exception fetch ends with for a failure, and what get_response,
\* base.py:91-96, and open_connection, base.py:116-117, make of it: the type
\* the caller sees and the message as the pieces of its f-string.
get_response_error(failure) ==
    CASE failure = "gaierror" ->
           [type |-> "ProxyError",
            message |-> <<"Unable to establish connection with host ", Host>>]
      [] failure \in {"refused", "ssl", "reset"} ->
           [type |-> "ProxyError",
            message |-> <<"Connection error: ", ErrorText(failure)>>]
      [] failure = "timeout" ->
           [type |-> "ProxyError",
            message |-> <<"Timeout establishing connection with server">>]
      [] failure = "ValueError" ->
           [type |-> "ValueError", message |-> <<>>]

\* -------------------------------------------------------- the request

UpperLetters == <<"A", "B", "C", "D", "E", "F", "G", "H", "I", "J", "K", "L", "M", "N", "O", "P", "Q", "R", "S", "T", "U", "V", "W", "X", "Y", "Z">>
LowerLetters == <<"a", "b", "c", "d", "e", "f", "g", "h", "i", "j", "k", "l", "m", "n", "o", "p", "q", "r", "s", "t", "u", "v", "w", "x", "y", "z">>

\* str.lower for one character, and what re.I compares.
lower_char(c) ==
    IF \E i \in 1..26 : UpperLetters[i] = c
    THEN LowerLetters[CHOOSE i \in 1..26 : UpperLetters[i] = c]
    ELSE c

\* s.lower()
lower(s) == [i \in 1..Len(s) |-> lower_char(s[i])]

\* base.py:29-33
BLOCKED_HOSTS ==
    {<<"v", "g", "e", "r", ".", "c", "l", "o", "u", "d">>,
     <<"w", "a", "r", "p", "e", "n", "g", "i", "n", "e", "e", "r", ".", "s", "p", "a", "c", "e">>,
     <<"m", "i", "c", "h", "a", "e", "l", "n", "o", "r", "d", "m", "e", "y", "e", "r", ".", "c", "o", "m">>}

\* base.py:36-49
ALLOWED_PORTS ==
    {70, 77, 79, 300, 301, 3000, 3333, 1900} \cup (1960..2020) \cup {5699}
        \cup (7000..7099) \cup {8070}

\* One character of a blocked host as written into the pattern: the dot is
\* not escaped and stands for any character, a letter for both its cases.
\* (ignore_case: the flag re.I.)
PatternChar(pc, c, ignore_case) ==
    IF pc = "." THEN c # "\n"
    ELSE IF ignore_case THEN lower_char(pc) = lower_char(c) ELSE pc = c

\* H \.?$ matched against the whole of rest.
MatchesTail(blocked, rest, ignore_case) ==
    /\ Len(rest) \in {Len(blocked), Len(blocked) + 1}
    /\ \A k \in 1..Len(blocked) : PatternChar(blocked[k], rest[k], ignore_case)
    /\ Len(rest) = Len(blocked) + 1 => rest[Len(rest)] = "."

\* The pattern of a blocked host without the flag re.I.
blocked_host_match_case_sensitive(blocked, host) ==
    \E i \in 0..Len(host) :
      /\ i = 0 \/ (i >= 2 /\ host[i] = ".")
      /\ MatchesTail(blocked, DropFirst(host, i), FALSE)

\* re.compile(rf"(?:.+\.)?{host}\.?$", flags=re.I).match(host), base.py:70,
\* 81: the optional group takes host[1..i], at least one character and a dot.
blocked_host_match(blocked, host) ==
    \E i \in 0..Len(host) :
      /\ i = 0 \/ (i >= 2 /\ host[i] = ".")
      /\ MatchesTail(blocked, DropFirst(host, i), TRUE)

\* BaseRequest.clean: the ValueError it raises, "none" when it returns.
clean(host, port) ==
    IF \E blocked \in BLOCKED_HOSTS : blocked_host_match(blocked, host)
    THEN "blocked host"
    ELSE IF port \notin ALLOWED_PORTS THEN "blocked port" ELSE "none"

\* The request class of a scheme, protocols/__init__.py:19-34.
RequestClasses ==
    [spartan |-> "SpartanRequest", text |-> "TxtRequest", finger |-> "FingerRequest",
     gemini |-> "GeminiRequest", nex |-> "NexRequest", gopher |-> "GopherRequest",
     gophers |-> "GopherRequest", scroll |-> "ScrollRequest"]

\* build_proxy_request: the ValueError raised, or the class of the request
\* that BaseRequest.__init__ built and cleaned.
build_proxy_request(u) ==
    IF u.scheme \notin DOMAIN RequestClasses
    THEN [raises |-> "unsupported scheme", request_class |-> NoneT]
    ELSE IF clean(u.host, u.port) # "none"
         THEN [raises |-> clean(u.host, u.port), request_class |-> NoneT]
         ELSE [raises |-> "none", request_class |-> RequestClasses[u.scheme]]

\* ------------------------------------------------------ the MIME string

\* s.split(sep, maxsplit=1)
split_once(s, sep) ==
    LET n == FirstIndex(s, sep, 1) IN
    IF n = 0 THEN <<s>> ELSE <<SubSeq(s, 1, n - 1), DropFirst(s, n)>>

RECURSIVE split(_, _)
\* s.split(sep)
split(s, sep) ==
    LET n == FirstIndex(s, sep, 1) IN
    IF n = 0 THEN <<s>> ELSE <<SubSeq(s, 1, n - 1)>> \o split(DropFirst(s, n), sep)

\* An empty dict.
EmptyDict == [k \in {} |-> <<>>]

RECURSIVE collect_params(_)
\* The loop of parse_meta, base.py:188-192, over the segments: the dict
\* after the last of them.
collect_params(segments) ==
    IF segments = <<>> THEN EmptyDict
    ELSE LET before == collect_params(SubSeq(segments, 1, Len(segments) - 1))
             parts == split_once(strip(segments[Len(segments)]), "=")
         IN  IF Len(parts) = 2
             THEN (lower(parts[1]) :> parts[2]) @@ before
             ELSE before

\* BaseResponse.parse_meta
parse_meta(m) ==
    LET parts == split_once(m, ";")
        extra == IF Len(parts) = 2 THEN parts[2] ELSE <<>>
    IN  [mimetype |-> strip(parts[1]),
         params |-> collect_params(split(extra, ";"))]

\* ----------------------------------------------------- the close-notify

Requests == 1..MaxRequests

\* create_ssl_context made every request use the one context of the first.
create_ssl_context_shared(r) == 1

\* ScrollRequest.create_ssl_context: ssl.create_default_context() makes a new
\* context at every call; the context is named after the request that calls.
create_ssl_context(r) == r

\* The hook CloseNotifyState installs, base.py:286-290: self.received after a
\* message of type m in the given direction.
msg_callback(self_received, direction, m) ==
    IF m = "CLOSE_NOTIFY" /\ direction = "read" THEN TRUE ELSE self_received

\* ------------------------------------------------------------------ state

VARIABLES
    \* ScrollHandler, one parse of one document
    line_buffer, active_type, anchor_counters, citation,
    iter_pc,          \* "idle", "lines" (inside the loop), "done"
    consumed,         \* the lines of text.splitlines() read so far
    blocks,           \* every block yielded so far
    yielded,          \* the blocks yielded for the line read last
    \* parse_inline_markup on its own
    inline_pc,        \* "idle", "ready", "done"
    text, markup,
    \* one response and its builder
    options,          \* [raw, raw_crt, crt]
    status,
    found_class,      \* the class get_handler_class finds: "template", "stream"
    body,             \* the bytes the peer sends in all, numbered 1, 2, ...
    peer,             \* what the peer does behind them: "eof", "open", "reset"
    wire,             \* the bytes not read yet
    closed,           \* writer.close() has been called
    fetches,          \* fetch() calls made for this response
    build_pc,         \* "idle", "ready", "returned", "raised", "awaiting_body"
    branch, output, error,
    got_body,         \* what get_body came to, NoBody if it was not called
    handler,          \* the handler class rendered from
    stream_kind,      \* "none", "plain" (stream_body), "partial" (seed, then stream_body)
    seed,             \* the partial bytes a "partial" stream starts with
    seed_sent,
    gen_pc,           \* stream_body's generator: "none", "created", "suspended", "finished"
    stream_end,       \* "none", "exhausted", "abandoned", "error"
    delivered,        \* the bytes handed to the HTTP client
    \* one ScrollRequest.get_response (status, wire and peer are the response's)
    fault,            \* how the connection attempt fails: "none", "gaierror",
                      \* "refused", "ssl", "timeout"
    sent,             \* everything the server sends before it stops
    fetch_pc,         \* "idle", "start", "connected", "sent", "author",
                      \* "publish_date", "modification_date", "returned",
                      \* "raised", "body_read"
    fetch_log,        \* the calls on the connection, in order
    raw_header, meta,
    parsed,           \* the metadata values parsed so far
    document_meta,
    fetch_result,     \* "none", "response", or the type of the exception
    fetch_message,    \* the pieces of the exception's message
    fetch_error_at,   \* the call that raised
    fetch_failure,    \* what it raised: a fault, "reset" or "ValueError"
    \* one build_proxy_request
    url,              \* [scheme, host, port], host and port as url.conn_info
    request_pc,       \* "idle", "ready", "built", "raised", "connecting"
    request_class,
    connections,      \* connection attempts made
    \* one parse_meta
    meta_pc,          \* "idle", "ready", "done"
    mime, mimetype, params,
    \* the fetches of several requests in flight, and their TLS contexts
    context_of,       \* the SSLContext each request's fetch made, 0 before it
    msg_callbacks,    \* context._msg_callback: the request whose
                      \* CloseNotifyState the hook writes to, 0 without a hook
    received,         \* CloseNotifyState.received of each request's response
    tls_messages      \* the TLS messages seen on each request's connection

scrollVars == <<line_buffer, active_type, anchor_counters, citation, iter_pc,
                consumed, blocks, yielded>>
inlineVars == <<inline_pc, text, markup>>
streamVars == <<stream_kind, seed, seed_sent, gen_pc, stream_end, delivered>>
responseVars == <<options, status, found_class, body, peer, fetches>>
buildVars == <<build_pc, branch, output, error, got_body, handler>>
fetchVars == <<fault, sent, fetch_pc, fetch_log, raw_header, meta, parsed,
               document_meta, fetch_result, fetch_message, fetch_error_at, fetch_failure>>
requestVars == <<url, request_pc, request_class, connections>>
metaVars == <<meta_pc, mime, mimetype, params>>
notifyVars == <<context_of, msg_callbacks, received, tls_messages>>
vars == <<scrollVars, inlineVars, responseVars, buildVars, streamVars, wire, closed,
          fetchVars, requestVars, metaVars, notifyVars>>

\* ----------------------------------------------------------- idle parts

ScrollStart ==
    /\ line_buffer = <<>>
    /\ active_type = NoneT
    /\ anchor_counters = ZeroCounters
    /\ citation = NoCitation
    /\ consumed = <<>>
    /\ blocks = <<>>
    /\ yielded = <<>>

ScrollIdle == ScrollStart /\ iter_pc = "idle"

InlineIdle == inline_pc = "idle" /\ text = <<>> /\ markup = <<>>

BuildStart ==
    /\ wire = body
    /\ closed = FALSE
    /\ fetches = 1
    /\ branch = "none"
    /\ output = "none"
    /\ error = "none"
    /\ got_body = NoBody
    /\ handler = "none"
    /\ stream_kind = "none"
    /\ seed = <<>>
    /\ seed_sent = FALSE
    /\ gen_pc = "none"
    /\ stream_end = "none"
    /\ delivered = <<>>

BuildIdle ==
    /\ options = [raw |-> FALSE, raw_crt |-> FALSE, crt |-> FALSE]
    /\ status = <<>>
    /\ found_class = "template"
    /\ body = <<>>
    /\ peer = "eof"
    /\ build_pc = "idle"
    /\ BuildStart

FetchStart ==
    /\ fetch_log = <<>>
    /\ raw_header = <<>>
    /\ meta = <<>>
    /\ parsed = <<>>
    /\ document_meta = NoDocumentMeta
    /\ fetch_result = "none"
    /\ fetch_message = <<>>
    /\ fetch_error_at = "none"
    /\ fetch_failure = "none"

FetchIdle == fault = "none" /\ sent = <<>> /\ fetch_pc = "idle" /\ FetchStart

RequestIdle ==
    /\ url = [scheme |-> "scroll", host |-> <<>>, port |-> 0]
    /\ request_pc = "idle"
    /\ request_class = NoneT
    /\ connections = 0

MetaIdle == meta_pc = "idle" /\ mime = <<>> /\ mimetype = <<>> /\ params = EmptyDict

NotifyStart ==
    /\ context_of = [r \in Requests |-> 0]
    /\ msg_callbacks = [c \in Requests |-> 0]
    /\ received = [r \in Requests |-> FALSE]
    /\ tls_messages = [r \in Requests |-> <<>>]

NotifyIdle == NotifyStart

\* ------------------------------------------------------------ the inputs

\* Lines of a document, as text.splitlines() hands them to the loop.
LineFence == <<Backtick, Backtick, Backtick>>
LineLink == <<"=", ">", " ", "u">>
LineLinkPrefix == <<"=", ">", " ", "u", " ", Emoji, "L">>
LinePrompt == <<"=", ":", " ", "u">>
LineH1 == <<"#", " ", "T", "i", "t", "l", "e">>
LineH2 == <<"#", "#", " ", "A">>
LineH3 == <<"#", "#", "#", " ", "B">>
LineH4 == <<"#", "#", "#", "#", " ", "D">>
LineH5 == <<"#", "#", "#", "#", "#", " ", "E">>
LineItem == <<"*", " ", "a">>
LineItemIndented == <<"*", " ", " ", "a">>
LineQuote == <<">", " ", "q">>
LineQuoteBare == <<">">>
LineRule == <<"-", "-", "-">>
LineEmpty == <<>>
LineText == <<"H", "e", "l", "l", "o", " ", "*", "w", "o", "r", "l", "d", "*">>
LineTextTrailing == <<"b", " ">>

DocLines ==
    {LineFence, LineLink, LineLinkPrefix, LinePrompt, LineH1, LineH2, LineH3,
     LineH4, LineH5, LineItem, LineItemIndented, LineQuote, LineQuoteBare,
     LineRule, LineEmpty, LineText, LineTextTrailing}

\* The lines of the heading-only documents.
HeadingLines == {LineH1, LineH2, LineH3, LineH4, LineH5, LineText}

InlineChars == {"a", " ", "*", "_", Backtick, "<", ">", "&", "'"}
TextBold == <<"*", "b", "o", "l", "d", "*">>
TextNotBold == <<"*", "*", "n", "o", "t", " ", "b", "o", "l", "d", "*", "*">>
InlineTexts ==
    UNION {[1..n -> InlineChars] : n \in 0..MaxInlineLen}
        \cup {TextBold, TextNotBold, <<"*", "*", "a", "*", "*">>,
              <<"_", "\"", "<", "b", ">", "\"", "_">>}

StatusChars == {"1", "2", "3", "4", "5", "6", "7"}
Statuses == UNION {[1..n -> StatusChars] : n \in 0..MaxStatusLen}
Bodies == {[i \in 1..n |-> i] : n \in 0..MaxBodyLen}
Options == [raw : BOOLEAN, raw_crt : BOOLEAN, crt : BOOLEAN]

\* ------------------------------------------------- the transducer's steps

Handler ==
    [line_buffer |-> line_buffer, active_type |-> active_type,
     anchor_counters |-> anchor_counters, citation |-> citation]

SetHandler(P) ==
    /\ line_buffer' = P.line_buffer
    /\ active_type' = P.active_type
    /\ anchor_counters' = P.anchor_counters
    /\ citation' = P.citation

\* One turn of the loop of iter_content: the next line of the document is
\* any line of L.
IterLine(L, max) ==
    /\ iter_pc = "lines"
    /\ Len(consumed) < max
    /\ \E raw \in L : \E r \in {ProcessLine(Handler, raw)} :
         /\ SetHandler(r.P)
         /\ consumed' = Append(consumed, raw)
         /\ yielded' = r.out
         /\ blocks' = blocks \o r.out
    /\ iter_pc' = "lines"
    /\ UNCHANGED <<inlineVars, responseVars, buildVars, streamVars, wire, closed,
                 fetchVars, requestVars, metaVars, notifyVars>>

\* The end of the input: the final flush, scroll.py:211.
IterEnd ==
    /\ iter_pc = "lines"
    /\ \E r \in {flush(Handler, NoneT)} :
         /\ SetHandler(r.P)
         /\ yielded' = r.out
         /\ blocks' = blocks \o r.out
    /\ iter_pc' = "done"
    /\ UNCHANGED <<consumed, inlineVars, responseVars, buildVars, streamVars, wire, closed,
                 fetchVars, requestVars, metaVars, notifyVars>>

InitScroll ==
    /\ ScrollStart /\ iter_pc = "lines"
    /\ InlineIdle /\ BuildIdle /\ FetchIdle /\ RequestIdle /\ MetaIdle /\ NotifyIdle

NextScroll == IterLine(DocLines, MaxLines) \/ IterEnd
SpecScroll == InitScroll /\ [][NextScroll]_vars

NextAnchors == IterLine(HeadingLines, MaxHeadingLines) \/ IterEnd
SpecAnchors == InitScroll /\ [][NextAnchors]_vars

\* Lines whose text holds inline markup.
MarkedH1 == <<"#", " ", "*", "T", "*">>
MarkedH3 == <<"#", "#", "#", " ", "_", "A", "_">>
MarkedLink == <<"=", ">", " ", "u", " ", "*", "L", "*">>
MarkedPrompt == <<"=", ":", " ", "u", " ", "_", "L", "_">>
MarkedItem == <<"*", " ", "*", "a", "*">>
MarkedQuote == <<">", " ", "_", "q", "_">>
MarkedText == <<"*", "t", "*", " ", "<">>
MarkedLines ==
    {LineFence, MarkedH1, MarkedH3, MarkedLink, MarkedPrompt, MarkedItem,
     MarkedQuote, MarkedText, LineRule, LineTextTrailing}

NextMarkup == IterLine(MarkedLines, MaxMarkedLines) \/ IterEnd
SpecMarkup == InitScroll /\ [][NextMarkup]_vars

\* ----------------------------------------------- inline markup on its own

ParseInline ==
    /\ inline_pc = "ready"
    /\ markup' = parse_inline_markup(text)
    /\ inline_pc' = "done"
    /\ UNCHANGED text
    /\ UNCHANGED <<scrollVars, responseVars, buildVars, streamVars, wire, closed,
                 fetchVars, requestVars, metaVars, notifyVars>>

InitInline ==
    /\ ScrollIdle
    /\ BuildIdle
    /\ FetchIdle /\ RequestIdle /\ MetaIdle /\ NotifyIdle
    /\ inline_pc = "ready"
    /\ text \in InlineTexts
    /\ markup = <<>>

SpecInline == InitInline /\ [][ParseInline]_vars

\* -------------------------------------------------- the builder's steps

\* ScrollProxyResponseBuilder.build_proxy_response, to its return or raise.
build_proxy_response(o, st, found, w, p) ==
    LET b == Branch(o, st)
        plain == [branch |-> b, pc |-> "returned", output |-> "none",
                  error |-> "none", got |-> NoBody, handler |-> "none",
                  stream_kind |-> "none", seed |-> <<>>, wire |-> w,
                  closed |-> FALSE]
    IN
    CASE b = "crt" ->
           LET g == get_body(w, p) IN
           [plain EXCEPT
              !.got = g, !.wire = g.wire, !.closed = g.closed,
              !.pc = CASE g.kind = "returned" -> "returned"
                       [] g.kind = "blocked" -> "awaiting_body"
                       [] OTHER -> "raised",
              !.output = IF g.kind = "returned" THEN PageOf(b) ELSE "none",
              !.error = CASE g.kind = "too_large" -> "ProxyResponseSizeError"
                          [] g.kind = "error" -> "OSError"
                          [] OTHER -> "none"]
      [] b = "handler" ->
           LET r == render_from_handler(o, found, w, p) IN
           [plain EXCEPT
              !.got = r.got, !.wire = r.wire, !.closed = r.closed,
              !.handler = r.handler, !.output = r.output, !.error = r.error,
              !.stream_kind = r.stream_kind, !.seed = r.seed,
              !.pc = IF r.error # "none" THEN "raised"
                     ELSE IF r.output = "none" THEN "awaiting_body"
                     ELSE "returned"]
      [] OTHER -> [plain EXCEPT !.output = PageOf(b)]

BuildProxyResponse ==
    /\ build_pc = "ready"
    /\ \E r \in {build_proxy_response(options, status, found_class, wire, peer)} :
         /\ build_pc' = r.pc
         /\ branch' = r.branch
         /\ output' = r.output
         /\ error' = r.error
         /\ got_body' = r.got
         /\ handler' = r.handler
         /\ stream_kind' = r.stream_kind
         /\ seed' = r.seed
         /\ wire' = r.wire
         /\ closed' = r.closed
         \* StreamHandler.from_response calls response.stream_body(): the
         \* generator exists and has not run.  from_partial_response calls it
         \* only behind the seed.
         /\ gen_pc' = IF r.stream_kind = "plain" THEN "created" ELSE "none"
    /\ UNCHANGED <<seed_sent, stream_end, delivered>>
    /\ UNCHANGED <<scrollVars, inlineVars, responseVars,
                 fetchVars, requestVars, metaVars, notifyVars>>

\* One turn of the loop of stream_body, base.py:233-237: reader.read returns
\* between one and CHUNK_SIZE of the unread bytes, or nothing at EOF, or
\* raises; with nothing to read and the peer silent it does not return.
stream_body_next(w, p) ==
    IF w # <<>>
    THEN {[kind |-> "chunk", data |-> SubSeq(w, 1, k), wire |-> DropFirst(w, k),
           closes |-> FALSE] :
             k \in 1..(IF Len(w) < CHUNK_SIZE THEN Len(w) ELSE CHUNK_SIZE)}
    ELSE CASE p = "eof" ->
                {[kind |-> "exhausted", data |-> <<>>, wire |-> w, closes |-> TRUE]}
           [] p = "reset" ->
                {[kind |-> "error", data |-> <<>>, wire |-> w, closes |-> TRUE]}
           [] p = "open" -> {}

\* Whether closing stream_body's generator at position pc runs its finally
\* clause: Python runs it only if the body has been entered, which a
\* generator that was never advanced has not.
finally_runs(pc) == pc = "suspended"

\* The consumer of a stream made by from_partial_response asks for its first
\* chunk: the partial bytes.
StreamSeed ==
    /\ build_pc = "returned"
    /\ stream_kind = "partial"
    /\ stream_end = "none"
    /\ ~seed_sent
    /\ delivered' = delivered \o seed
    /\ seed_sent' = TRUE
    /\ UNCHANGED <<stream_kind, seed, gen_pc, stream_end, wire, closed>>
    /\ UNCHANGED <<scrollVars, inlineVars, responseVars, buildVars,
                 fetchVars, requestVars, metaVars, notifyVars>>

\* The consumer of the HTTP output asks for the next chunk of stream_body.
StreamNext ==
    /\ build_pc = "returned"
    /\ stream_kind # "none"
    /\ stream_end = "none"
    /\ ~(stream_kind = "partial" /\ ~seed_sent)
    /\ \E r \in stream_body_next(wire, peer) :
         /\ delivered' = delivered \o r.data
         /\ wire' = r.wire
         /\ closed' = (closed \/ r.closes)
         /\ gen_pc' = IF r.kind = "chunk" THEN "suspended" ELSE "finished"
         /\ stream_end' = IF r.kind = "chunk" THEN "none" ELSE r.kind
    /\ UNCHANGED <<stream_kind, seed, seed_sent>>
    /\ UNCHANGED <<scrollVars, inlineVars, responseVars, buildVars,
                 fetchVars, requestVars, metaVars, notifyVars>>

\* The consumer drops the stream between two chunks (aclose, or the garbage
\* collector's finalizer): GeneratorExit at the yield of a started
\* generator, nothing at all in one that never ran.
StreamAbandon ==
    /\ build_pc = "returned"
    /\ stream_kind # "none"
    /\ stream_end = "none"
    /\ stream_end' = "abandoned"
    /\ closed' = (closed \/ finally_runs(gen_pc))
    /\ gen_pc' = IF gen_pc = "none" THEN "none" ELSE "finished"
    /\ UNCHANGED <<stream_kind, seed, seed_sent, delivered, wire>>
    /\ UNCHANGED <<scrollVars, inlineVars, responseVars, buildVars,
                 fetchVars, requestVars, metaVars, notifyVars>>

\* The consumer is cancelled while its request for a chunk waits in
\* reader.read for a peer that sends nothing: CancelledError inside the try.
StreamCancel ==
    /\ build_pc = "returned"
    /\ stream_kind # "none"
    /\ stream_end = "none"
    /\ ~(stream_kind = "partial" /\ ~seed_sent)
    /\ wire = <<>>
    /\ peer = "open"
    /\ stream_end' = "abandoned"
    /\ closed' = TRUE
    /\ gen_pc' = "finished"
    /\ UNCHANGED <<stream_kind, seed, seed_sent, delivered, wire>>
    /\ UNCHANGED <<scrollVars, inlineVars, responseVars, buildVars,
                 fetchVars, requestVars, metaVars, notifyVars>>

Init ==
    /\ ScrollIdle
    /\ InlineIdle
    /\ FetchIdle /\ RequestIdle /\ MetaIdle /\ NotifyIdle
    /\ options \in Options
    /\ status \in Statuses
    /\ found_class \in {"template", "stream"}
    /\ body \in Bodies
    /\ peer \in {"eof", "open", "reset"}
    /\ build_pc = "ready"
    /\ BuildStart

Next == BuildProxyResponse \/ StreamSeed \/ StreamNext \/ StreamAbandon \/ StreamCancel
Spec == Init /\ [][Next]_vars

\* ---------------------------------------------------- the fetch's steps

\* What a server sends: the header line, the three metadata lines, a body.
HeaderLines ==
    {<<"2", " ", "m", "\n">>, <<"2", "\n">>, <<"3", " ", "m", "\n">>, <<"\n">>}
AuthorLines == {<<"A", "\n">>, <<"\n">>}
DateLines ==
    {<<"D", "\n">>, <<"D", "Z", "\n">>, <<"x", "\n">>, <<"x", "Z", "\n">>, <<"\n">>}
WireBodies == {[i \in 1..n |-> "b"] : n \in 0..MaxWireBody}
WholeResponses ==
    {h \o a \o d \o m \o b : h \in HeaderLines, a \in AuthorLines, d \in DateLines,
                             m \in DateLines, b \in WireBodies}
\* A server may stop anywhere.
Sendings == UNION {{SubSeq(w, 1, n) : n \in 0..Len(w)} : w \in WholeResponses}

Faults == {"none", "gaierror", "refused", "ssl", "timeout"}

\* The fetch ends with an exception raised by the call `at`.
FetchRaise(failure, at) ==
    /\ fetch_pc' = "raised"
    /\ fetch_result' = get_response_error(failure).type
    /\ fetch_message' = get_response_error(failure).message
    /\ fetch_error_at' = at
    /\ fetch_failure' = failure

\* fetch returns ScrollResponse(...), scroll.py:92-103.
FetchReturn(dm) ==
    /\ fetch_pc' = "returned"
    /\ fetch_result' = "response"
    /\ document_meta' = dm
    /\ UNCHANGED <<fetch_message, fetch_error_at, fetch_failure>>

\* await self.open_connection(ssl=context), scroll.py:64.
OpenConnection ==
    /\ fetch_pc = "start"
    /\ fetch_log' = Append(fetch_log, "open_connection")
    /\ IF fault = "none"
       THEN /\ fetch_pc' = "connected"
            /\ UNCHANGED <<fetch_result, fetch_message, fetch_error_at, fetch_failure>>
       ELSE FetchRaise(fault, "open_connection")
    /\ UNCHANGED <<fault, sent, raw_header, meta, parsed, document_meta>>
    /\ UNCHANGED <<scrollVars, inlineVars, responseVars, buildVars, streamVars,
                   wire, closed, requestVars, metaVars, notifyVars>>

\* writer.write(data); await writer.drain(), scroll.py:76-77.
SendRequest ==
    /\ fetch_pc = "connected"
    /\ fetch_log' = fetch_log \o <<"write", "drain">>
    /\ fetch_pc' = "sent"
    /\ UNCHANGED <<fault, sent, raw_header, meta, parsed, document_meta,
                   fetch_result, fetch_message, fetch_error_at, fetch_failure>>
    /\ UNCHANGED <<scrollVars, inlineVars, responseVars, buildVars, streamVars,
                   wire, closed, requestVars, metaVars, notifyVars>>

\* raw_header = await reader.readline(); parse_response_header; and, for a
\* status without metadata lines, the return; scroll.py:79-82, 89-103.
ReadHeader ==
    /\ fetch_pc = "sent"
    /\ \E r \in {readline(wire, peer)} :
         /\ r.kind # "blocked"
         /\ fetch_log' = Append(fetch_log, "header")
         /\ wire' = r.wire
         /\ IF r.kind = "error"
            THEN /\ FetchRaise("reset", "header")
                 /\ UNCHANGED <<raw_header, status, meta, document_meta>>
            ELSE \E h \in {parse_response_header(r.data)} :
                   /\ raw_header' = r.data
                   /\ IF h.raises
                      THEN /\ FetchRaise("ValueError", "header")
                           /\ UNCHANGED <<status, meta, document_meta>>
                      ELSE /\ status' = h.status
                           /\ meta' = h.meta
                           /\ IF reads_document_meta(h.status)
                              THEN /\ fetch_pc' = "author"
                                   /\ UNCHANGED <<document_meta, fetch_result,
                                                  fetch_message, fetch_error_at, fetch_failure>>
                              ELSE FetchReturn(NoDocumentMeta)
    /\ UNCHANGED <<fault, sent, parsed>>
    /\ UNCHANGED <<options, found_class, body, peer, fetches>>
    /\ UNCHANGED <<scrollVars, inlineVars, buildVars, streamVars, closed,
                   requestVars, metaVars, notifyVars>>

\* author=self.parse_author(await reader.readline()), scroll.py:84.
ReadAuthor ==
    /\ fetch_pc = "author"
    /\ \E r \in {readline(wire, peer)} :
         /\ r.kind # "blocked"
         /\ fetch_log' = Append(fetch_log, "author")
         /\ wire' = r.wire
         /\ IF r.kind = "error"
            THEN FetchRaise("reset", "author") /\ UNCHANGED parsed
            ELSE /\ parsed' = Append(parsed, parse_author(r.data))
                 /\ fetch_pc' = "publish_date"
                 /\ UNCHANGED <<fetch_result, fetch_message, fetch_error_at, fetch_failure>>
    /\ UNCHANGED <<fault, sent, raw_header, meta, document_meta>>
    /\ UNCHANGED <<scrollVars, inlineVars, responseVars, buildVars, streamVars,
                   closed, requestVars, metaVars, notifyVars>>

\* publish_date=self.parse_date(await reader.readline()), scroll.py:85.
ReadPublishDate ==
    /\ fetch_pc = "publish_date"
    /\ \E r \in {readline(wire, peer)} :
         /\ r.kind # "blocked"
         /\ fetch_log' = Append(fetch_log, "publish_date")
         /\ wire' = r.wire
         /\ IF r.kind = "error"
            THEN FetchRaise("reset", "publish_date") /\ UNCHANGED parsed
            ELSE \E d \in {parse_date(r.data)} :
                   IF d.raises
                   THEN FetchRaise("ValueError", "publish_date") /\ UNCHANGED parsed
                   ELSE /\ parsed' = Append(parsed, d.value)
                        /\ fetch_pc' = "modification_date"
                        /\ UNCHANGED <<fetch_result, fetch_message, fetch_error_at, fetch_failure>>
    /\ UNCHANGED <<fault, sent, raw_header, meta, document_meta>>
    /\ UNCHANGED <<scrollVars, inlineVars, responseVars, buildVars, streamVars,
                   closed, requestVars, metaVars, notifyVars>>

\* modification_date=self.parse_date(await reader.readline()) and the
\* return, scroll.py:86-103.
ReadModificationDate ==
    /\ fetch_pc = "modification_date"
    /\ \E r \in {readline(wire, peer)} :
         /\ r.kind # "blocked"
         /\ fetch_log' = Append(fetch_log, "modification_date")
         /\ wire' = r.wire
         /\ IF r.kind = "error"
            THEN FetchRaise("reset", "modification_date") /\ UNCHANGED document_meta
            ELSE \E d \in {parse_date(r.data)} :
                   IF d.raises
                   THEN /\ FetchRaise("ValueError", "modification_date")
                        /\ UNCHANGED document_meta
                   ELSE FetchReturn(DocumentMetadata(parsed[1], parsed[2], d.value))
    /\ UNCHANGED <<fault, sent, raw_header, meta, parsed>>
    /\ UNCHANGED <<scrollVars, inlineVars, responseVars, buildVars, streamVars,
                   closed, requestVars, metaVars, notifyVars>>

\* The caller reads the body of the response it was given (get_body).
ReadBody ==
    /\ fetch_pc = "returned"
    /\ \E g \in {get_body(wire, peer)} :
         /\ g.kind # "blocked"
         /\ fetch_log' = Append(fetch_log, "body")
         /\ wire' = g.wire
         /\ closed' = g.closed
    /\ fetch_pc' = "body_read"
    /\ UNCHANGED <<fault, sent, raw_header, meta, parsed, document_meta,
                   fetch_result, fetch_message, fetch_error_at, fetch_failure>>
    /\ UNCHANGED <<scrollVars, inlineVars, responseVars, buildVars, streamVars,
                   requestVars, metaVars, notifyVars>>

InitFetch ==
    /\ ScrollIdle /\ InlineIdle /\ RequestIdle /\ MetaIdle /\ NotifyIdle
    /\ options = [raw |-> FALSE, raw_crt |-> FALSE, crt |-> FALSE]
    /\ found_class = "template"
    /\ body = <<>>
    /\ fetches = 1
    /\ build_pc = "idle"
    /\ branch = "none" /\ output = "none" /\ error = "none"
    /\ got_body = NoBody /\ handler = "none"
    /\ stream_kind = "none" /\ seed = <<>> /\ seed_sent = FALSE
    /\ gen_pc = "none" /\ stream_end = "none" /\ delivered = <<>>
    /\ closed = FALSE
    /\ status = <<>>
    /\ fault \in Faults
    /\ sent \in (IF fault = "none" THEN Sendings ELSE {<<>>})
    /\ peer \in (IF fault = "none" THEN {"eof", "reset", "open"} ELSE {"eof"})
    /\ wire = sent
    /\ fetch_pc = "start"
    /\ FetchStart

NextFetch ==
    \/ OpenConnection \/ SendRequest \/ ReadHeader \/ ReadAuthor
    \/ ReadPublishDate \/ ReadModificationDate \/ ReadBody
SpecFetch == InitFetch /\ [][NextFetch]_vars

\* -------------------------------------------------- the request's steps

Schemes ==
    {"spartan", "text", "finger", "gemini", "nex", "gopher", "gophers", "scroll",
     "http", "https", ""}
Hosts ==
    {<<"v", "g", "e", "r", ".", "c", "l", "o", "u", "d">>,
     <<"V", "G", "E", "R", ".", "C", "l", "o", "u", "d">>,
     <<"v", "g", "e", "r", ".", "c", "l", "o", "u", "d", ".">>,
     <<"a", ".", "v", "g", "e", "r", ".", "c", "l", "o", "u", "d">>,
     <<"A", ".", "b", ".", "V", "g", "e", "r", ".", "c", "l", "o", "u", "d", ".">>,
     <<"x", "v", "g", "e", "r", ".", "c", "l", "o", "u", "d">>,
     <<"v", "g", "e", "r", ".", "c", "l", "o", "u", "d", "x">>,
     <<"v", "g", "e", "r", "x", "c", "l", "o", "u", "d">>,
     <<"v", "g", "e", "r", ".", "c", "l", "o", "u", "d", ".", "e", "v", "i", "l", ".", "o", "r", "g">>,
     <<"m", "o", "z", "z", ".", "u", "s">>,
     <<"w", "a", "r", "p", "e", "n", "g", "i", "n", "e", "e", "r", ".", "s", "p", "a", "c", "e">>,
     <<"g", "e", "m", ".", "m", "i", "c", "h", "a", "e", "l", "n", "o", "r", "d", "m", "e", "y", "e", "r", ".", "c", "o", "m">>,
     <<"m", "i", "c", "h", "a", "e", "l", "n", "o", "r", "d", "m", "e", "y", "e", "r", ".", "c", "o", "m", ".", ".">>,
     <<"1", "7", "4", ".", "1", "3", "8", ".", "1", "2", "4", ".", "1", "6", "9">>}
Ports == {22, 70, 79, 443, 1900, 1959, 1960, 1965, 2020, 2021, 7099, 7100, 8070}

\* build_proxy_request(url)
BuildProxyRequest ==
    /\ request_pc = "ready"
    /\ \E r \in {build_proxy_request(url)} :
         /\ request_pc' = IF r.raises = "none" THEN "built" ELSE "raised"
         /\ request_class' = r.request_class
    /\ UNCHANGED <<url, connections>>
    /\ UNCHANGED <<scrollVars, inlineVars, responseVars, buildVars, streamVars,
                   wire, closed, fetchVars, metaVars, notifyVars>>

\* The caller of a request that exists asks it for the response: fetch
\* begins with the connection attempt.
GetResponse ==
    /\ request_pc = "built"
    /\ request_pc' = "connecting"
    /\ connections' = connections + 1
    /\ UNCHANGED <<url, request_class>>
    /\ UNCHANGED <<scrollVars, inlineVars, responseVars, buildVars, streamVars,
                   wire, closed, fetchVars, metaVars, notifyVars>>

InitRequest ==
    /\ ScrollIdle /\ InlineIdle /\ BuildIdle /\ FetchIdle /\ MetaIdle /\ NotifyIdle
    /\ url \in [scheme : Schemes, host : Hosts, port : Ports]
    /\ request_pc = "ready"
    /\ request_class = NoneT
    /\ connections = 0

NextRequest == BuildProxyRequest \/ GetResponse
SpecRequest == InitRequest /\ [][NextRequest]_vars

\* ------------------------------------------------- the MIME string's step

MimeTypes == {<<"t">>, <<" ", "t", " ">>, <<>>}
\* The segments behind the MIME type.
Segments ==
    {<<"k", "=", "v">>, <<"k", "=", "w">>, <<"K", "=", "x">>,
     <<" ", "k", "=", "v", " ">>, <<"c", "=", "u">>, <<"k">>, <<>>, <<"=">>,
     <<"k", "=">>, <<"k", "=", "v", "=", "w">>}
MetaStrings ==
    {mt \o Flatten([i \in 1..Len(segs) |-> <<";">> \o segs[i]]) :
        mt \in MimeTypes, segs \in UNION {[1..n -> Segments] : n \in 0..MaxParams}}

\* self.mimetype, params = self.parse_meta(meta), scroll.py:171
ParseMeta ==
    /\ meta_pc = "ready"
    /\ \E r \in {parse_meta(mime)} :
         /\ mimetype' = r.mimetype
         /\ params' = r.params
    /\ meta_pc' = "done"
    /\ UNCHANGED mime
    /\ UNCHANGED <<scrollVars, inlineVars, responseVars, buildVars, streamVars,
                   wire, closed, fetchVars, requestVars, notifyVars>>

InitMeta ==
    /\ ScrollIdle /\ InlineIdle /\ BuildIdle /\ FetchIdle /\ RequestIdle /\ NotifyIdle
    /\ meta_pc = "ready"
    /\ mime \in MetaStrings
    /\ mimetype = <<>>
    /\ params = EmptyDict

SpecMeta == InitMeta /\ [][ParseMeta]_vars

\* ------------------------------------------------ the close-notify's steps

RECURSIVE MessagesSeen(_)
\* The messages seen on the connections of the requests 1..n together.
MessagesSeen(n) == IF n = 0 THEN 0 ELSE Len(tls_messages[n]) + MessagesSeen(n - 1)

\* The head of ScrollRequest.fetch of request r, scroll.py:61-64: a context,
\* a CloseNotifyState (received False, its hook put on the context), and the
\* connection opened with the context.
FetchContext(r) ==
    /\ context_of[r] = 0
    /\ \E context \in {create_ssl_context(r)} :
         /\ context_of' = [context_of EXCEPT ![r] = context]
         /\ msg_callbacks' = [msg_callbacks EXCEPT ![context] = r]
    /\ received' = [received EXCEPT ![r] = FALSE]
    /\ UNCHANGED tls_messages
    /\ UNCHANGED <<scrollVars, inlineVars, responseVars, buildVars, streamVars,
                   wire, closed, fetchVars, requestVars, metaVars>>

\* The TLS layer of request r's connection handles a message of type m in
\* the given direction and calls the hook of the connection's context.
TlsMessage(r, direction, m) ==
    /\ context_of[r] # 0
    /\ MessagesSeen(MaxRequests) < MaxMessages
    /\ tls_messages' = [tls_messages EXCEPT
                           ![r] = Append(@, [direction |-> direction, m |-> m])]
    /\ \E state \in {msg_callbacks[context_of[r]]} :
         received' = [received EXCEPT ![state] = msg_callback(@, direction, m)]
    /\ UNCHANGED <<context_of, msg_callbacks>>
    /\ UNCHANGED <<scrollVars, inlineVars, responseVars, buildVars, streamVars,
                   wire, closed, fetchVars, requestVars, metaVars>>

\* ScrollResponse.tls_close_notify_received of the response of request r.
tls_close_notify_received(r) == received[r]

TlsDirections == {"read", "write"}
TlsMessageTypes == {"CLOSE_NOTIFY", "HANDSHAKE_FAILURE", "handshake"}

InitNotify ==
    /\ ScrollIdle /\ InlineIdle /\ BuildIdle /\ FetchIdle /\ RequestIdle /\ MetaIdle
    /\ NotifyStart

NextNotify ==
    \E r \in Requests :
       \/ FetchContext(r)
       \/ \E direction \in TlsDirections : \E m \in TlsMessageTypes :
             TlsMessage(r, direction, m)

SpecNotify == InitNotify /\ [][NextNotify]_vars

\* ================================================================ claims
\* ---------------------------------------------------------------- C1

\* The first character of a status, "" for the empty status.
StatusClass(st) == IF st = <<>> THEN "" ELSE st[1]

\* The outcome the precedence list gives: certificate modes first, then the
\* status class.
ExpectedOutcome(o, st) ==
    IF o.raw_crt THEN "raw_crt"
    ELSE IF o.crt THEN "crt"
    ELSE CASE StatusClass(st) = "1" -> "input"
           [] StatusClass(st) = "2" -> "handler"
           [] StatusClass(st) = "3" -> "redirect"
           [] StatusClass(st) \in {"4", "5"} -> "proxy_error"
           [] StatusClass(st) = "6" -> "cert_required"
           [] OTHER -> "gateway_error"

\* C1: build_proxy_response takes exactly the arm the first-match precedence
\* gives (raw certificate, TLS context page, then the status class 1, 2, 3,
\* 4 or 5, 6, and the gateway error for every other status, the empty one
\* included); a status with the same first character takes the same arm; and
\* an arm that returns without reading the body returns its own page.
C1_FirstMatchDispatch ==
    build_pc \notin {"idle", "ready"} =>
      /\ branch = ExpectedOutcome(options, status)
      /\ \A st \in Statuses :
           StatusClass(st) = StatusClass(status) => Branch(options, st) = branch
      /\ \A st \in Statuses :
           (options.raw_crt \/ options.crt) => Branch(options, st) = branch
      /\ (build_pc = "returned" /\ branch # "handler") => output = PageOf(branch)
      /\ (build_pc = "returned" /\ branch = "handler") => output \in {"document", "stream"}

\* C1 witness: the certificate page is returned for a success status.
C1_Witness ==
    /\ build_pc = "returned"
    /\ options.crt /\ ~options.raw_crt
    /\ status = <<"2", "7">>
    /\ output = "tls-context"

\* ---------------------------------------------------------------- C2

\* C2: when the template handler's get_body raises the too-large error, the
\* stream handler is seeded with exactly the MAX_BODY_SIZE bytes read, the
\* connection is still open and continues behind them; at every moment what
\* was delivered, what is still seeded and what is still unread make up the
\* body in order, an exhausted stream has delivered the body, and no second
\* fetch was made.
C2_TooLargeRecovery ==
    stream_kind = "partial" =>
      /\ got_body.kind = "too_large"
      /\ seed = SubSeq(body, 1, MAX_BODY_SIZE)
      /\ delivered \o (IF seed_sent THEN <<>> ELSE seed) \o wire = body
      /\ (stream_end = "exhausted" => delivered = body)
      /\ (stream_end = "none" => ~closed)
      /\ fetches = 1

\* C2 witness: a recovered stream ran to its end over a body longer than the
\* limit.
C2_Witness ==
    /\ stream_kind = "partial"
    /\ stream_end = "exhausted"
    /\ Len(body) > MAX_BODY_SIZE + 1
    /\ delivered = body

\* ---------------------------------------------------------------- C3

\* C3: get_body returns the whole body, without an error, when the peer
\* closes after fewer than MAX_BODY_SIZE bytes; when MAX_BODY_SIZE bytes
\* arrive it raises ProxyResponseSizeError carrying exactly the first
\* MAX_BODY_SIZE bytes and does not call close().
C3_BoundedRead ==
    got_body.kind # "none" =>
      /\ (Len(body) < MAX_BODY_SIZE /\ peer = "eof") =>
            /\ got_body.kind = "returned"
            /\ got_body.data = body
            /\ error = "none"
      /\ Len(body) >= MAX_BODY_SIZE =>
            /\ got_body.kind = "too_large"
            /\ got_body.data = SubSeq(body, 1, MAX_BODY_SIZE)
            /\ ~got_body.closed
            /\ (stream_end = "none" => ~closed)

\* C3 witness: exactly MAX_BODY_SIZE bytes arrived, the peer keeps the
\* connection open, and the error carries them.
C3_Witness ==
    /\ got_body.kind = "too_large"
    /\ Len(body) = MAX_BODY_SIZE
    /\ peer = "open"
    /\ got_body.data = body
    /\ ~closed

\* ---------------------------------------------------------------- C4

\* C4: stream_body closes the connection however the iteration of its
\* generator ends (EOF, the consumer abandoning it, a read error), and not
\* before.
C4_StreamBodyAlwaysCloses ==
    stream_kind = "plain" =>
      /\ (stream_end # "none" => closed)
      /\ (stream_end = "none" => ~closed)

\* ---------------------------------------------------------------- C5

RawOnly == options.raw /\ ~options.raw_crt /\ ~options.crt

\* C5 as stated: with the raw option (and no certificate mode) the builder
\* streams the body for every status.
C5_RawAlwaysStreams ==
    (RawOnly /\ status # <<>> /\ build_pc = "returned") => output = "stream"

\* C5, amended: with the raw option (and no certificate mode) a response
\* whose status starts with "2" is streamed verbatim by the stream handler,
\* whatever class its mimetype selects and without a bounded read; for every
\* other status the raw option changes nothing and the page of the status
\* class is returned.
C5_RawStreamsSuccessOnly ==
    (RawOnly /\ build_pc \notin {"idle", "ready"}) =>
      IF StatusClass(status) = "2"
      THEN /\ build_pc = "returned"
           /\ output = "stream"
           /\ handler = "stream"
           /\ stream_kind = "plain"
           /\ got_body = NoBody
           /\ delivered \o wire = body
           /\ (stream_end = "exhausted" => delivered = body)
      ELSE /\ build_pc = "returned"
           /\ output = PageOf(ExpectedOutcome(options, status))
           /\ stream_kind = "none"

\* C5 witness: a raw stream of a body a template handler would have found too
\* large ran to its end.
C5_Witness ==
    /\ RawOnly
    /\ StatusClass(status) = "2"
    /\ found_class = "template"
    /\ Len(body) >= MAX_BODY_SIZE
    /\ stream_end = "exhausted"
    /\ delivered = body

\* ---------------------------------------------------------------- C6

\* C6: build_proxy_response never raises, whatever the (non-empty) status,
\* the options and the length of the body (a peer that resets the connection
\* set aside).
C6_NeverRaises ==
    (peer # "reset" /\ status # <<>>) => (build_pc # "raised" /\ error = "none")

\* ---------------------------------------------------------------- C7

RECURSIVE LeadingHashes(_)
LeadingHashes(s) ==
    IF s # <<>> /\ s[1] = "#" THEN 1 + LeadingHashes(Tail(s)) ELSE 0

\* The heading level a line shows: its leading "#", five at most; 0 for a
\* line that is no heading.
HeadingLevel(raw) ==
    LET n == LeadingHashes(rstrip(raw)) IN IF n > 5 THEN 5 ELSE n

LevelsOf(lines) == [i \in 1..Len(lines) |-> HeadingLevel(lines[i])]

Front(s) == SubSeq(s, 1, Len(s) - 1)
Last(s) == s[Len(s)]

\* The numbering rules of the claim, on a triple <<H2, H3, H4>>.
RuleStep(c, level) ==
    LET h3step(t) == LET u == IF t[1] = 0 THEN <<1, 0, 0>> ELSE t
                     IN  <<u[1], u[2] + 1, 0>>
    IN  CASE level = 2 -> <<c[1] + 1, 0, 0>>
          [] level = 3 -> h3step(c)
          [] level = 4 -> LET u == IF c[2] = 0 THEN h3step(c) ELSE c
                          IN  <<u[1], u[2], u[3] + 1>>
          [] OTHER -> c

RECURSIVE RuleCounters(_)
RuleCounters(levels) ==
    IF levels = <<>> THEN <<0, 0, 0>>
    ELSE RuleStep(RuleCounters(Front(levels)), Last(levels))

RECURSIVE RuleAnchors(_)
\* The outline numbers of the headings of level 2, 3 and 4, in order.
RuleAnchors(levels) ==
    IF levels = <<>> THEN <<>>
    ELSE RuleAnchors(Front(levels)) \o
         (IF Last(levels) \in 2..4
          THEN <<SubSeq(RuleCounters(levels), 1, Last(levels) - 1)>>
          ELSE <<>>)

IsAnchored(b) == b.item_type \in {"h2", "h3", "h4"}
AnchoredBlocks(bs) == SelectSeq(bs, IsAnchored)
BlockAnchors(bs) == [i \in 1..Len(AnchoredBlocks(bs)) |-> AnchoredBlocks(bs)[i].anchor]
IsAnchoredLevel(n) == n \in 2..4
AnchoredLevels(lines) == SelectSeq(LevelsOf(lines), IsAnchoredLevel)

\* C7: the anchors of the level-2, level-3 and level-4 headings of a document
\* are the outline numbers the rules give for its sequence of heading levels,
\* and the counters are the rules' counters; ##, ###, ###, ####, ## gives
\* 1, 1.1, 1.2, 1.2.1, 2; a first #### gives 1.1.1; headings of level 1 and 5
\* have no anchor and move no counter.
C7_OutlineAnchors ==
    LET levels == LevelsOf(consumed) IN
    /\ BlockAnchors(blocks) = RuleAnchors(levels)
    /\ <<anchor_counters.H2, anchor_counters.H3, anchor_counters.H4>>
          = RuleCounters(levels)
    /\ \A i \in 1..Len(blocks) :
          blocks[i].item_type \in {"h1", "h5"} => blocks[i].anchor = <<>>
    /\ Len(SelectSeq(blocks, LAMBDA b : b.item_type \in {"h1", "h5"}))
          = Len(SelectSeq(levels, LAMBDA n : n \in {1, 5}))
    /\ AnchoredLevels(consumed) = <<2, 3, 3, 4, 2>> =>
          BlockAnchors(blocks) = << <<1>>, <<1, 1>>, <<1, 2>>, <<1, 2, 1>>, <<2>> >>
    /\ (AnchoredLevels(consumed) # <<>> /\ Head(AnchoredLevels(consumed)) = 4) =>
          Head(BlockAnchors(blocks)) = <<1, 1, 1>>

\* C7 witness: the document ##, ###, ###, ####, ## has been read to its end.
C7_Witness ==
    /\ iter_pc = "done"
    /\ consumed = <<LineH2, LineH3, LineH3, LineH4, LineH2>>
    /\ BlockAnchors(blocks) = << <<1>>, <<1, 1>>, <<1, 2>>, <<1, 2, 1>>, <<2>> >>

\* ---------------------------------------------------------------- C8

\* The step reads a line that starts with "=>".
ReadsLink ==
    /\ consumed' # consumed
    /\ StartsWith(rstrip(Last(consumed')), <<"=", ">">>)

LinkRead == parse_link_line(DropFirst(rstrip(Last(consumed')), 2))

\* The link became the citation of the open blockquote, which is yielded at
\* once, alone, and ends.
CitationCase ==
    /\ Len(yielded') = 1
    /\ yielded'[1].item_type = "blockquote"
    /\ yielded'[1].lines =
          [i \in 1..Len(line_buffer) |-> parse_inline_markup(line_buffer[i])]
    /\ yielded'[1].citation =
          [present |-> TRUE, url |-> LinkRead.url, text |-> LinkRead.text,
           prefix |-> IF LinkRead.prefix = <<>> THEN EmDash ELSE LinkRead.prefix]
    /\ active_type' = NoneT
    /\ line_buffer' = <<>>
    /\ citation' = NoCitation

\* The open block, if any, is flushed and a link block follows it; no
\* citation is involved.
StandaloneCase ==
    /\ Len(yielded') = IF line_buffer # <<>> /\ active_type # NoneT THEN 2 ELSE 1
    /\ Last(yielded') = [Block("link") EXCEPT !.url = LinkRead.url,
                                             !.text = LinkRead.text,
                                             !.prefix = LinkRead.prefix]
    /\ Len(yielded') = 2 =>
          /\ yielded'[1].item_type = active_type
          /\ Len(yielded'[1].lines) = Len(line_buffer)
    /\ \A i \in 1..Len(yielded') : ~yielded'[i].citation.present
    /\ active_type' = NoneT
    /\ line_buffer' = <<>>
    /\ citation' = NoCitation

\* Inside a code fence the line is buffered as it is and nothing is yielded.
FencedCase ==
    /\ yielded' = <<>>
    /\ active_type' = "pre"
    /\ line_buffer' = Append(line_buffer, rstrip(Last(consumed')))

\* C8 as stated: a link line read in a blockquote becomes its citation, a
\* link line read in any other state flushes the open block and yields a
\* link block.
C8_LinkLineAnyOtherState ==
    [][ReadsLink =>
          IF active_type = "blockquote" THEN CitationCase ELSE StandaloneCase]_vars

\* C8, amended: a link line read in a blockquote becomes its citation (with
\* the em-dash prefix when it has none of its own), the blockquote is yielded
\* at once and ends, so that a following link line is a link block; a link
\* line read inside a code fence is buffered verbatim and yields nothing; a
\* link line read in any other state (none, paragraph, list) flushes the open
\* block and yields a link block without a citation.
C8_LinkLine ==
    [][ReadsLink =>
          CASE active_type = "blockquote" -> CitationCase
            [] active_type = "pre" -> FencedCase
            [] OTHER -> StandaloneCase]_vars

\* C8 witness: a quote line, then a link line without a prefix: the
\* blockquote was yielded with the em-dash citation and no link block.
C8_Witness ==
    /\ Len(consumed) >= 2
    /\ consumed[Len(consumed) - 1] = LineQuote
    /\ Last(consumed) = LineLink
    /\ Len(yielded) = 1
    /\ yielded[1].item_type = "blockquote"
    /\ yielded[1].citation.present
    /\ yielded[1].citation.prefix = EmDash
    /\ active_type = NoneT

\* ---------------------------------------------------------------- C9

TitleText == <<"T", "i", "t", "l", "e">>
HelloBoldWorld ==
    <<"H", "e", "l", "l", "o", " ", "<", "b", ">", "w", "o", "r", "l", "d",
      "<", "/", "b", ">">>
TitleDocument == <<LineH1, LineEmpty, LineText>>

\* C9 as stated: the document "# Title", "", "Hello *world*" yields the
\* heading "Title" and then a paragraph that holds the text line only.
C9_ParagraphOfOneLine ==
    (iter_pc = "done" /\ consumed = TitleDocument) =>
      /\ blocks[1] = [Block("h1") EXCEPT !.text = TitleText]
      /\ blocks[2].item_type = "p"
      /\ blocks[2].lines = <<HelloBoldWorld>>

\* C9, amended: the document yields exactly two blocks, the level-1 heading
\* "Title" and a paragraph whose lines are the empty line and
\* "Hello <b>world</b>": the empty line opens the paragraph and is kept as
\* its first line.
C9_ParagraphKeepsEmptyLine ==
    (iter_pc = "done" /\ consumed = TitleDocument) =>
      /\ Len(blocks) = 2
      /\ blocks[1] = [Block("h1") EXCEPT !.text = TitleText]
      /\ blocks[2] = [Block("p") EXCEPT !.lines = << <<>>, HelloBoldWorld >>]

\* C9 witness: the document has been read to its end.
C9_Witness ==
    /\ iter_pc = "done"
    /\ consumed = TitleDocument
    /\ Len(blocks) = 2

\* ---------------------------------------------------------------- C10

\* Whether sub occurs in s.
Contains(s, sub) ==
    \E i \in 1..(Len(s) - Len(sub) + 1) : SubSeq(s, i, i + Len(sub) - 1) = sub

\* Text delimited by double asterisks: "**", a content without asterisks
\* that starts and ends with a non-whitespace character, "**".
DoubleAsterisks(s) ==
    /\ Len(s) >= 5
    /\ SubSeq(s, 1, 2) = <<"*", "*">>
    /\ SubSeq(s, Len(s) - 1, Len(s)) = <<"*", "*">>
    /\ \A i \in 3..(Len(s) - 2) : s[i] \notin {"*", "_", Backtick}
    /\ ~IsSpace(s[3]) /\ ~IsSpace(s[Len(s) - 2])

\* C10: parse_inline_markup turns "*bold*" into a bold element and leaves text
\* delimited by double asterisks without any <b>.
C10_SingleAsterisksOnly ==
    inline_pc = "done" =>
      /\ text = TextBold =>
            markup = BoldOpen \o <<"b", "o", "l", "d">> \o BoldClose
      /\ DoubleAsterisks(text) => ~Contains(markup, BoldOpen)

\* ---------------------------------------------------------------- C11

\* The elements the substitutions insert.
InlineTags == {CodeOpen, CodeClose, BoldOpen, BoldClose, ItalicOpen, ItalicClose}

\* The entities markupsafe.escape writes.
Entities == {EscapeChar(c) : c \in {"&", "<", ">", "'", "\""}}

\* Whether one of the sequences of `set` stands in s at position i.
StandsAt(s, i, set) ==
    \E t \in set : i + Len(t) - 1 <= Len(s) /\ SubSeq(s, i, i + Len(t) - 1) = t

RECURSIVE StripTags(_)
\* s without the inserted elements, read from the left.
StripTags(s) ==
    IF s = <<>> THEN <<>>
    ELSE IF StandsAt(s, 1, InlineTags)
         THEN LET t == CHOOSE t \in InlineTags : StartsWith(s, t)
              IN  StripTags(DropFirst(s, Len(t)))
         ELSE <<s[1]>> \o StripTags(Tail(s))

IsDelimiter(c) == c \in {"*", "_", Backtick}
NotDelimiter(c) == ~IsDelimiter(c)

\* C11: in the output of parse_inline_markup "<" and ">" occur only in the
\* inserted <code>, <b> and <i> elements; no quote character is left; every
\* "&" starts a whole entity; and the output without the inserted elements is
\* the escaped input with nothing but delimiter characters taken away, so
\* every special character of the input is there in escaped form and no
\* entity was changed by a substitution.
C11_EscapedBeforeMarkup ==
    inline_pc = "done" =>
      \E bare \in {StripTags(markup)} : \E escaped \in {escape(text)} :
        /\ \A i \in 1..Len(bare) : bare[i] \notin {"<", ">", "'", "\""}
        /\ \A i \in 1..Len(markup) :
              markup[i] = "&" => StandsAt(markup, i, Entities)
        /\ SelectSeq(bare, NotDelimiter) = SelectSeq(escaped, NotDelimiter)
        /\ \A i \in 1..Len(bare) :
              IsDelimiter(bare[i]) => \E k \in 1..Len(escaped) : escaped[k] = bare[i]

\* C11 witness: "<" between asterisks came out as an entity inside a bold
\* element.
C11_Witness ==
    /\ inline_pc = "done"
    /\ text = <<"*", "<", "*">>
    /\ markup = BoldOpen \o <<"&", "l", "t", ";">> \o BoldClose

\* ---------------------------------------------------------------- C12

\* The types flush is asked for.
FlushTargets == {NoneT, "p", "ul", "blockquote", "pre"}

\* C12: in every state a parse reaches, flush yields no block when the line
\* buffer is empty; when the requested type is the active type it yields no
\* block and leaves the buffer, the citation and the active type as they are;
\* and a second flush with the same requested type yields no block and
\* changes nothing.
C12_FlushNoOp ==
    \A t \in FlushTargets :
      LET f == flush(Handler, t)
          g == flush(f.P, t)
      IN  /\ line_buffer = <<>> => f.out = <<>>
          /\ t = active_type => (f.out = <<>> /\ f.P = Handler)
          /\ g.out = <<>>
          /\ g.P = f.P

\* C12 witness: the second of two text lines asked for the paragraph that
\* was already open: nothing was yielded and the buffer holds both lines.
C12_Witness ==
    /\ consumed = <<LineText, LineTextTrailing>>
    /\ active_type = "p"
    /\ line_buffer = <<LineText, <<"b">> >>
    /\ blocks = <<>>
    /\ flush(Handler, "p").out = <<>>
    /\ flush(Handler, NoneT).out # <<>>

\* ---------------------------------------------------------------- C13

\* C13: a publish-date or modification-date line that does not parse never
\* ends the fetch with an exception.
C13_BadDateNeverAborts ==
    ~(/\ fetch_pc = "raised"
      /\ fetch_failure = "ValueError"
      /\ fetch_error_at \in {"publish_date", "modification_date"})

\* ---------------------------------------------------------------- C14

\* C14: fetch returns a response only from a header line that was read with
\* its newline.
C14_TruncatedHeaderFails ==
    fetch_result = "response" => (raw_header # <<>> /\ Last(raw_header) = "\n")

\* ---------------------------------------------------------------- C15

\* C15: every network failure of get_response reaches the caller as a
\* ProxyError whose message holds the host of the request.
C15_ProxyErrorNamesHost ==
    fetch_failure \in {"gaierror", "refused", "ssl", "timeout", "reset"} =>
      /\ fetch_result = "ProxyError"
      /\ \E i \in 1..Len(fetch_message) : fetch_message[i] = Host

\* ---------------------------------------------------------------- C17

\* The calls of one fetch on its connection, for a status.
FetchOrder(st) ==
    <<"open_connection", "write", "drain", "header">> \o
    (IF StartsWith(st, <<"2">>)
     THEN <<"author", "publish_date", "modification_date">> ELSE <<>>)

IsPrefix(a, b) == Len(a) <= Len(b) /\ SubSeq(b, 1, Len(a)) = a

RECURSIVE AfterLines(_, _)
\* What is left of w behind its first n lines.
AfterLines(w, n) ==
    IF n = 0 THEN w ELSE AfterLines(readline(w, "eof").wire, n - 1)

\* C17: the calls of a fetch on its connection come in one order: the
\* connection, the request written and drained, one header line, then for a
\* status that starts with "2", and for no other, the author, publish-date
\* and modification-date lines, and only then the body.  A response has
\* been returned only behind all of them; it has document metadata exactly
\* for a status that starts with "2"; and what is unread when it is returned
\* is what the server sent behind the header line, or behind the four lines.
C17_SequentialReads ==
    /\ status = <<>> => IsPrefix(fetch_log, FetchOrder(<<>>))
    /\ status # <<>> => IsPrefix(fetch_log, FetchOrder(status) \o <<"body">>)
    /\ fetch_result = "response" =>
          /\ IsPrefix(FetchOrder(status), fetch_log)
          /\ document_meta.present <=> StartsWith(status, <<"2">>)
          /\ fetch_pc = "returned" =>
                wire = AfterLines(sent, Len(FetchOrder(status)) - 3)

\* C17 witness: a fetch with status "2" read its four lines and then the body.
C17_Witness ==
    /\ fetch_pc = "body_read"
    /\ status = <<"2">>
    /\ meta = <<"m">>
    /\ fetch_log = <<"open_connection", "write", "drain", "header", "author",
                     "publish_date", "modification_date", "body">>
    /\ document_meta.author = <<"A">>
    /\ document_meta.publish_date = [date |-> <<"D">>, utc |-> TRUE]
    /\ document_meta.modification_date = NoDate

\* ---------------------------------------------------------------- C16

SupportedSchemes ==
    {"spartan", "text", "finger", "gemini", "nex", "gopher", "gophers", "scroll"}

\* A host name without its one optional trailing dot, in lower case.
HostName(host) ==
    lower(IF host # <<>> /\ host[Len(host)] = "." THEN Front(host) ELSE host)

\* The host is a blocked host or a subdomain of one.
IsBlockedName(host) ==
    \E blocked \in BLOCKED_HOSTS :
      \/ HostName(host) = blocked
      \/ /\ Len(HostName(host)) > Len(blocked) + 1
         /\ EndsWith(HostName(host), <<".">> \o blocked)

\* C16: build_proxy_request raises ValueError, with no connection attempted,
\* whenever the scheme is not supported, the host is a blocked host or a
\* subdomain of one (in any case, with or without a trailing dot) or the port
\* is not an allowed port; a request that exists has a supported scheme, a
\* host that is not blocked and an allowed port, and only a request that
\* exists makes a connection attempt.
C16_ValidatedAtConstruction ==
    LET bad == \/ url.scheme \notin SupportedSchemes
               \/ IsBlockedName(url.host)
               \/ url.port \notin ALLOWED_PORTS
    IN  /\ (bad /\ request_pc # "ready") =>
              (request_pc = "raised" /\ request_class = NoneT /\ connections = 0)
        /\ request_pc \in {"built", "connecting"} =>
              (~bad /\ request_class = RequestClasses[url.scheme])
        /\ connections > 0 => request_pc = "connecting"

\* C16 witness: a subdomain of a blocked host, in upper case and with a
\* trailing dot, on an allowed port, was refused.
C16_Witness ==
    /\ request_pc = "raised"
    /\ url.scheme = "gemini"
    /\ url.host = <<"A", ".", "b", ".", "V", "g", "e", "r", ".", "c", "l", "o", "u", "d", ".">>
    /\ url.port = 1965
    /\ connections = 0

\* ---------------------------------------------------------------- C18

\* The segments of a MIME string behind its first ";".
SegmentsOf(m) ==
    IF FirstIndex(m, ";", 1) = 0 THEN <<>>
    ELSE split(DropFirst(m, FirstIndex(m, ";", 1)), ";")

\* A segment with a "=": its key in lower case and its value.
HasValue(seg) == FirstIndex(strip(seg), "=", 1) > 0
KeyOf(seg) == lower(SubSeq(strip(seg), 1, FirstIndex(strip(seg), "=", 1) - 1))
ValueOf(seg) == DropFirst(strip(seg), FirstIndex(strip(seg), "=", 1))

\* C18: parse_meta drops every segment without "=", lowercases the keys, and
\* a key that occurs in more than one segment keeps the value of the first
\* of them: a later segment does not replace it.
C18_LaterValueDoesNotReplace ==
    meta_pc = "done" =>
      LET segs == SegmentsOf(mime)
          valued == {i \in 1..Len(segs) : HasValue(segs[i])}
      IN  /\ DOMAIN params = {KeyOf(segs[i]) : i \in valued}
          /\ \A i \in valued :
                (\A j \in valued : KeyOf(segs[j]) = KeyOf(segs[i]) => i <= j) =>
                  params[KeyOf(segs[i])] = ValueOf(segs[i])

\* ---------------------------------------------------------------- C19

\* C19: at every point of a parse a level-3 counter above zero has a level-2
\* counter above zero over it, and a level-4 counter a level-3 counter; and
\* no anchor yielded for a level-2, level-3 or level-4 heading holds a zero.
C19_NoZeroComponent ==
    /\ anchor_counters.H3 > 0 => anchor_counters.H2 > 0
    /\ anchor_counters.H4 > 0 => anchor_counters.H3 > 0
    /\ \A i \in 1..Len(blocks) :
          IsAnchored(blocks[i]) =>
            /\ Len(blocks[i].anchor) =
                  (CASE blocks[i].item_type = "h2" -> 1
                     [] blocks[i].item_type = "h3" -> 2
                     [] blocks[i].item_type = "h4" -> 3)
            /\ \A k \in 1..Len(blocks[i].anchor) : blocks[i].anchor[k] > 0

\* C19 witness: a level-4 heading came first, then a level-2 and a level-4
\* heading: anchors 1.1.1, 2 and 2.1.1.
C19_Witness ==
    /\ consumed = <<LineH4, LineH2, LineH4>>
    /\ BlockAnchors(blocks) = << <<1, 1, 1>>, <<2>>, <<2, 1, 1>> >>
    /\ anchor_counters = [H2 |-> 2, H3 |-> 1, H4 |-> 1]

\* ---------------------------------------------------------------- C20

\* The line the step reads, as the rules of the loop see it.
LineRead == rstrip(Last(consumed'))

\* The text a heading, link or prompt block of the line read carries when no
\* inline markup is applied to it.
PlainText(item_type) ==
    CASE item_type \in {"link", "prompt"} -> parse_link_line(DropFirst(LineRead, 2)).text
      [] item_type = "h1" -> lstrip(DropFirst(LineRead, 1))
      [] item_type = "h2" -> lstrip(DropFirst(LineRead, 2))
      [] item_type = "h3" -> lstrip(DropFirst(LineRead, 3))
      [] item_type = "h4" -> lstrip(DropFirst(LineRead, 4))
      [] item_type = "h5" -> lstrip(DropFirst(LineRead, 5))
      [] OTHER -> <<>>

\* C20: a block of buffered lines carries the inline markup of its lines
\* exactly when it is a paragraph, a list or a blockquote, and a pre block
\* carries the buffered lines themselves; a line read between two fences is
\* appended to the buffer as the loop sees it (without its trailing
\* whitespace), yields nothing and leaves the active type, the anchor
\* counters and the citation alone, whatever marker it starts with; and the
\* text of a heading, link or prompt block is the text of its line, without
\* inline markup.
C20_MarkupOnlyAtFlush ==
    [][/\ \A i \in 1..Len(yielded') :
            LET b == yielded'[i] IN
            /\ b.item_type \in {"p", "ul", "blockquote"} =>
                  b.lines = [k \in 1..Len(line_buffer) |->
                                parse_inline_markup(line_buffer[k])]
            /\ b.item_type = "pre" => b.lines = line_buffer
            /\ b.item_type \in {"p", "ul", "blockquote", "pre"} =>
                  b.item_type = active_type
            /\ b.item_type \in {"h1", "h2", "h3", "h4", "h5", "link", "prompt"} =>
                  (b.text = PlainText(b.item_type) /\ b.lines = <<>>)
       /\ (consumed' # consumed /\ active_type = "pre"
              /\ ~StartsWith(LineRead, Fence)) =>
            /\ yielded' = <<>>
            /\ line_buffer' = Append(line_buffer, LineRead)
            /\ active_type' = "pre"
            /\ anchor_counters' = anchor_counters
            /\ citation' = citation
      ]_vars

\* C20 witness: a heading line with markup between two fences came out as
\* the one line of a pre block, and no anchor counter moved.
C20_Witness ==
    /\ consumed = <<LineFence, MarkedH3, LineFence>>
    /\ blocks = <<[Block("pre") EXCEPT !.lines = <<MarkedH3>>]>>
    /\ anchor_counters = ZeroCounters
    /\ active_type = NoneT

\* ---------------------------------------------------------------- C21

BufferedKinds == {"p", "ul", "blockquote", "pre"}

\* What a line (without its trailing whitespace) is to the document: a fence,
\* a line of the open fence, or the kind its marker gives; a link line
\* behind an open quote is that quote's citation.
LineKind(line, fenced, quoting) ==
    IF StartsWith(line, Fence) THEN "fence"
    ELSE IF fenced THEN "pre"
    ELSE IF StartsWith(line, <<"=", ">">>)
    THEN (IF quoting THEN "citation" ELSE "link")
    ELSE IF StartsWith(line, <<"=", ":">>) THEN "prompt"
    ELSE IF LeadingHashes(line) > 0
    THEN <<"h1", "h2", "h3", "h4", "h5">>[HeadingLevel(line)]
    ELSE IF StartsWith(line, <<"*", " ">>) THEN "ul"
    ELSE IF StartsWith(line, <<">", " ">>) \/ line = <<">">> THEN "blockquote"
    ELSE IF line = <<"-", "-", "-">> THEN "hr"
    ELSE "p"

\* The line of a run as its block shows it.
RunLine(kind, line) ==
    CASE kind = "ul" -> parse_inline_markup(lstrip(DropFirst(line, 1)))
      [] kind = "blockquote" -> parse_inline_markup(DropFirst(line, 2))
      [] kind = "p" -> parse_inline_markup(line)
      [] OTHER -> line

\* The outline of a document after one more line: its entries (one for every
\* maximal run of lines of one buffered kind, one for every other line that
\* is a block of its own), whether a fence is open, and whether the last
\* entry is a run that the next line may continue.
OutlineStep(S, raw) ==
    LET line == rstrip(raw)
        n == Len(S.entries)
        quoting == S.open /\ S.entries[n].item_type = "blockquote"
        kind == LineKind(line, S.fenced, quoting)
    IN  IF kind = "fence"
        THEN [entries |-> S.entries, fenced |-> ~S.fenced, open |-> FALSE]
        ELSE IF kind = "citation"
        THEN [entries |-> S.entries, fenced |-> FALSE, open |-> FALSE]
        ELSE IF kind \in BufferedKinds
        THEN IF S.open /\ S.entries[n].item_type = kind
             THEN [S EXCEPT !.entries[n].lines = Append(@, RunLine(kind, line))]
             ELSE [entries |-> Append(S.entries,
                                      [item_type |-> kind,
                                       lines |-> <<RunLine(kind, line)>>]),
                   fenced |-> S.fenced, open |-> TRUE]
        ELSE [entries |-> Append(S.entries, [item_type |-> kind, lines |-> <<>>]),
              fenced |-> FALSE, open |-> FALSE]

RECURSIVE Outline(_)
Outline(lines) ==
    IF lines = <<>> THEN [entries |-> <<>>, fenced |-> FALSE, open |-> FALSE]
    ELSE OutlineStep(Outline(Front(lines)), Last(lines))

\* The kind and the lines of every block yielded so far.
Emitted == [i \in 1..Len(blocks) |->
               [item_type |-> blocks[i].item_type, lines |-> blocks[i].lines]]

\* The block the buffer would be flushed as.
Pending ==
    IF line_buffer # <<>> /\ active_type # NoneT
    THEN <<[item_type |-> active_type,
            lines |-> IF active_type = "pre" THEN line_buffer
                      ELSE [k \in 1..Len(line_buffer) |->
                               parse_inline_markup(line_buffer[k])]]>>
    ELSE <<>>

\* C21: every maximal run of consecutive lines of one buffered kind (list,
\* quote, paragraph, or the lines inside one fence) is exactly one block of
\* that kind with the run's lines in input order; the blocks come in the
\* order of the lines that made them; while the loop runs the blocks yielded
\* and the open buffer together are the outline of the lines read, and after
\* the final flush the blocks alone are (an unterminated fence included): no
\* buffered line is lost or emitted twice.
C21_RunsBecomeBlocks ==
    /\ Emitted \o Pending = Outline(consumed).entries
    /\ iter_pc = "done" => Pending = <<>>

\* C21 witness: an unterminated fence of two lines came out of the final
\* flush as one pre block of the two lines.
C21_Witness ==
    /\ iter_pc = "done"
    /\ consumed = <<LineFence, LineText, LineH2>>
    /\ Emitted = <<[item_type |-> "pre", lines |-> <<LineText, LineH2>>]>>

\* ---------------------------------------------------------------- C22

\* The step reads a line that the loop takes for a list line.
ListLineRead ==
    /\ consumed' # consumed
    /\ active_type # "pre"
    /\ StartsWith(LineRead, <<"*", " ">>)

\* C22 as claimed: the text buffered for a list line is the line without the
\* "*" and exactly one space behind it; further leading whitespace stays.
C22_ListStripsOneSpace ==
    [][ListLineRead => Last(line_buffer') = DropFirst(LineRead, 2)]_vars

\* C22: the text buffered for a list line is the line without the "*" and
\* without all of the whitespace behind it: the text is not empty, starts
\* with a character that is no whitespace, and the line is the "*", one or
\* more whitespace characters, and the text.
C22_ListStripsAllWhitespace ==
    [][ListLineRead =>
         LET t == Last(line_buffer') IN
         /\ active_type' = "ul"
         /\ t # <<>> /\ ~IsSpace(t[1])
         /\ \E n \in 1..Len(LineRead) :
              /\ \A i \in 2..(1 + n) : IsSpace(LineRead[i])
              /\ DropFirst(LineRead, 1 + n) = t
      ]_vars

\* C22 witness: the line "*  a" was read and "a" is what the buffer holds.
C22_Witness ==
    /\ consumed # <<>> /\ Last(consumed) = LineItemIndented
    /\ active_type = "ul"
    /\ Last(line_buffer) = <<"a">>

\* ---------------------------------------------------------------- C26

\* C26: after every line read, and after the final flush, the buffer is not
\* empty while a paragraph, a list or a blockquote is active and is empty
\* while no type is active, and no citation is pending; so a block yielded
\* has a citation only if it is a blockquote (and then the one citation of
\* the link line that closed it).
C26_BufferFollowsActiveType ==
    /\ active_type \in {"p", "ul", "blockquote"} => line_buffer # <<>>
    /\ active_type = NoneT => line_buffer = <<>>
    /\ citation = NoCitation
    /\ \A i \in 1..Len(blocks) :
         blocks[i].citation.present => blocks[i].item_type = "blockquote"

\* C26 witness: a quote closed by a link line was yielded with its citation,
\* and a list is open behind it with nothing pending.
C26_Witness ==
    /\ consumed = <<LineQuote, LineLinkPrefix, LineItem>>
    /\ Len(blocks) = 1
    /\ blocks[1].item_type = "blockquote" /\ blocks[1].citation.present
    /\ active_type = "ul" /\ line_buffer = <<<<"a">>>>
    /\ citation = NoCitation

\* ---------------------------------------------------------------- C27

\* The counters a come before the counters b as triples (H2, H3, H4).
LexLess(a, b) ==
    \/ a.H2 < b.H2
    \/ a.H2 = b.H2 /\ a.H3 < b.H3
    \/ a.H2 = b.H2 /\ a.H3 = b.H3 /\ a.H4 < b.H4

\* The step reads a heading line of level 2, 3 or 4 outside a fence.
AnchoredHeadingRead ==
    /\ consumed' # consumed
    /\ active_type # "pre"
    /\ HeadingLevel(Last(consumed')) \in 2..4

\* C27: at every heading of level 2, 3 or 4 the counters (H2, H3, H4) grow
\* in lexicographic order, and no two headings of the document have the same
\* anchor; a step that reads no such heading leaves the counters alone.
C27_AnchorsStrictlyIncrease ==
    [][/\ AnchoredHeadingRead =>
            /\ LexLess(anchor_counters, anchor_counters')
            /\ \A i, j \in 1..Len(BlockAnchors(blocks')) :
                  i # j => BlockAnchors(blocks')[i] # BlockAnchors(blocks')[j]
       /\ ~AnchoredHeadingRead => anchor_counters' = anchor_counters
      ]_vars

\* C27 witness: five headings that go down and up again got the anchors
\* 1, 1.1, 1.1.1, 1.2 and 2.
C27_Witness ==
    /\ consumed = <<LineH2, LineH3, LineH4, LineH3, LineH2>>
    /\ BlockAnchors(blocks) = << <<1>>, <<1, 1>>, <<1, 1, 1>>, <<1, 2>>, <<2>> >>
    /\ anchor_counters = [H2 |-> 2, H3 |-> 0, H4 |-> 0]

\* ---------------------------------------------------------------- C25

\* C25: get_body returns normally exactly when the peer closes after fewer
\* than MAX_BODY_SIZE bytes; a body of exactly MAX_BODY_SIZE bytes with EOF
\* right behind it raises ProxyResponseSizeError with the whole body, nothing
\* is left unread, and the connection stays open until a stream is run over
\* it.
C25_ReturnsOnlyBelowLimit ==
    got_body.kind # "none" =>
      /\ got_body.kind = "returned" <=> (Len(body) < MAX_BODY_SIZE /\ peer = "eof")
      /\ (Len(body) = MAX_BODY_SIZE /\ peer = "eof") =>
            /\ got_body.kind = "too_large"
            /\ got_body.data = body
            /\ got_body.wire = <<>>
            /\ ~got_body.closed
            /\ (gen_pc \in {"none", "created"} => ~closed)

\* C25 witness: exactly MAX_BODY_SIZE bytes and then EOF: the read raised
\* with all of them and the connection is open.
C25_Witness ==
    /\ Len(body) = MAX_BODY_SIZE
    /\ peer = "eof"
    /\ got_body.kind = "too_large"
    /\ got_body.data = body
    /\ wire = <<>>
    /\ ~closed

\* ---------------------------------------------------------------- C24

\* build_proxy_response has returned, and the stream it returned, if any,
\* has been run to its end or given up.
ResponseDone ==
    /\ build_pc = "returned"
    /\ stream_kind = "none" \/ stream_end # "none"

\* C24: once build_proxy_response has returned and the stream it returned,
\* if any, has been consumed or abandoned, the connection of the response
\* has been closed, whichever branch was taken: raw certificate, TLS
\* context page, input prompt, content handler (the recovery from a body
\* over the limit included), redirect, error page, certificate-required
\* page, gateway-error page.
C24_ClosedOnEveryBranch == ResponseDone => closed

\* ---------------------------------------------------------------- C23

CloseNotifyRead == [direction |-> "read", m |-> "CLOSE_NOTIFY"]

\* C23: the close-notify flag of a response is false when its fetch makes it,
\* turns true only in a step in which a close_notify alert is read on that
\* response's own connection (never for an alert written, never for a
\* message on the connection of another request in flight), and once true
\* stays true.
C23_CloseNotifyFlag ==
    [][\A r \in Requests :
         /\ (context_of[r] = 0 /\ context_of'[r] # 0) =>
               ~tls_close_notify_received(r)'
         /\ (~tls_close_notify_received(r) /\ tls_close_notify_received(r)') =>
               tls_messages'[r] = Append(tls_messages[r], CloseNotifyRead)
         /\ tls_close_notify_received(r) => tls_close_notify_received(r)'
         /\ tls_messages'[r] # tls_messages[r] =>
               \A q \in Requests \ {r} :
                  tls_close_notify_received(q)' = tls_close_notify_received(q)
      ]_vars

\* C23 witness: two requests are in flight; a close_notify was read on the
\* connection of the first and one was written on the connection of the
\* second: the flag of the first response is set, the flag of the second is
\* not.
C23_Witness ==
    /\ context_of[1] # 0 /\ context_of[2] # 0
    /\ tls_messages[1] = <<CloseNotifyRead>>
    /\ tls_messages[2] = <<[direction |-> "write", m |-> "CLOSE_NOTIFY"]>>
    /\ tls_close_notify_received(1)
    /\ ~tls_close_notify_received(2)

====
